---- MODULE Spec2Model ----
(***************************************************************************)
(* Model of the action execution engine and the planning agent of         *)
(* airi-minecraft.                                                         *)
(*                                                                         *)
(* ActionManager (class, action queue + single executing flag) is modelled *)
(* at the granularity of the JavaScript run-to-completion segments: every  *)
(* action below is the code that runs between two awaits.  Continuations   *)
(* of awaits wait in the FIFO microtask queue `ready`; timer callbacks     *)
(* (setTimeout / setInterval) are macrotasks and only run when the         *)
(* microtask queue is empty.  Clients and action bodies are external and   *)
(* may act at any point.                                                   *)
(*                                                                         *)
(* PlanningAgentImpl (createPlan, executePlan with its step producer and   *)
(* consumer, adjustPlan, handleInterrupt, handleAgentMessage) has its own  *)
(* variables and specifications: each completion of something external (an *)
(* answer of the language model, the result of performAction, the 100 ms   *)
(* timer, an event) is one action that runs the continuations it wakes to  *)
(* their next wait.                                                        *)
(***************************************************************************)
EXTENDS Integers, Sequences, FiniteSets, TLC

\* ---------------------------------------------------------------- bounds
MaxCalls == 2      \* runAction / resumeAction calls made by clients
MaxFifoCalls == 3  \* plain runAction calls made in the FIFO scenario

CallIds == 1..(IF MaxCalls > MaxFifoCalls THEN MaxCalls ELSE MaxFifoCalls)

\* '' (empty label) and undefined (no function) are both written 0
NoId == 0

\* The QueuedAction a client call creates.  The action of call c is
\* identified with c: its label is c (or '' when hasLabel is FALSE) and its
\* function is the body c (or undefined when hasFn is FALSE).  A timeout
\* is the default of 10 minutes or 0 (no deadline timer).
ActionInputs ==
    { [resume |-> FALSE, hasFn |-> TRUE,  hasLabel |-> TRUE,  timeout |-> 10],
      [resume |-> FALSE, hasFn |-> FALSE, hasLabel |-> TRUE,  timeout |-> 0],
      [resume |-> TRUE,  hasFn |-> TRUE,  hasLabel |-> TRUE,  timeout |-> 0],
      [resume |-> TRUE,  hasFn |-> FALSE, hasLabel |-> TRUE,  timeout |-> 10],
      [resume |-> TRUE,  hasFn |-> TRUE,  hasLabel |-> FALSE, timeout |-> 10] }

NoAction == [resume |-> FALSE, hasFn |-> FALSE, hasLabel |-> FALSE, timeout |-> 0]

\* ActionResult values
NoResult == [success |-> FALSE, message |-> "pending", timedout |-> FALSE]
ResultSuccess == [success |-> TRUE, message |-> "success", timedout |-> FALSE]
ResultFailed == [success |-> FALSE, message |-> "failed", timedout |-> FALSE]
ResultNoop == [success |-> FALSE, message |-> "null", timedout |-> FALSE]

\* ------------------------------------------------------ planning agent
\* Literals of PlanningAgentImpl: the retry ceiling tested in the catch
\* block of the step executor and the chunk size of the step generator.
maxRetries == 3
chunkSize == 3

\* Steps the step generators push to pendingSteps in one run; once they are
\* reached the language model answers with empty chunks only.
MaxPushed == 8

\* executePlan calls the client has pending at once in the overlap scenario
MaxExecuteCalls == 2

\* One executePlan invocation per frame: the client's call and one per
\* retry.  One Plan object per createPlan / adjustPlan result.
FrameIds == 1..(maxRetries + 1)
PlanIds == 1..(maxRetries + 1)
NoFrame == 0
NoPlan == 0

\* Strings are sequences of words; String.includes and the verb-object
\* regular expressions are matched word by word.
Words(s) == { s[i] : i \in 1..Len(s) }
Includes(s, phrase) ==
    \E i \in 1..(Len(s) - Len(phrase) + 1) :
        SubSeq(s, i, i + Len(phrase) - 1) = phrase
IncludesAny(s, phrases) == \E ph \in phrases : Includes(s, ph)

\* Goals given to createPlan
GoalInputs == { << "hello" >>, << "collect", "wood" >>, << "attack", "zombie" >> }

\* Messages of the errors performAction rejects with
FeedbackInputs ==
    { << "inventory", "full" >>,
      << "block", "not", "found", "need", "tool" >>,
      << "action", "failed" >> }

\* toRetriable's attempt limit as createRetryHandler passes it
retryLimit == 3

\* The retry handlers of handler.ts (with an onError hook) and gateway.ts
RetryIds == { "handler", "gateway" }

\* What an attempt of the operation does: fulfil, reject with a transient
\* error, reject with an LLMError 'invalid request'
OutcomeKinds == { "ok", "transient", "invalid" }
OperationRuns == [1..retryLimit -> OutcomeKinds]

IdleRetry ==
    [pc |-> "idle", attempts |-> 0,
     result |-> [kind |-> "none", attempt |-> 0], hookCalls |-> 0]

\* Messages other agents send while a plan is current
MessageInputs == { << "inventory", "full" >>, << "action", "failed" >> }
NoMessage == [state |-> "idle", feedback |-> << >>]

\* Sizes of the step lists the language model answers with
StreamChunkSizes == { 0, 2, chunkSize }
PlanStepSizes == { 2 }

\* A PlanStep: who made it, its tool, and a number telling the steps of
\* one origin apart
Step(origin, tool, n) == [origin |-> origin, tool |-> tool, n |-> n]

NullContext ==
    [exists |-> FALSE, goal |-> << >>, currentStep |-> 0, retryCount |-> 0,
     isGenerating |-> FALSE, pendingSteps |-> << >>]
NoPlanObject == [status |-> "none", requiresAction |-> FALSE, steps |-> << >>]
NoAdjust == [plan |-> NoPlan, currentStep |-> 0, recovery |-> << >>]
NoStep == Step("none", "none", 0)
NoOther == [state |-> "idle", goal |-> << >>]
NoHandlerContext == [exists |-> FALSE, retryCount |-> 0, currentStep |-> 0, nPending |-> 0]
NoHandlerCalls == [live |-> 0, detached |-> 0]
FreeFrame ==
    [plan |-> NoPlan, parent |-> NoFrame, state |-> "free", err |-> "none",
     gen |-> "idle", exec |-> "idle", errs |-> [gen |-> "none", exec |-> "none"],
     adj |-> NoAdjust, step |-> NoStep, nsub |-> 0, chunks |-> 0,
     stepsDone |-> -1]

VARIABLES
    \* PlanningAgentImpl: the Plan objects, this.currentPlan, this.context
    plans, currentPlan, context,
    \* the executePlan invocations with their producer and consumer tasks
    frames,
    \* the caller: where it is, its goal, the plan createPlan returned and
    \* how its executePlan call ended
    client, goal, clientPlan,
    \* history: steps pushed to pendingSteps so far,
    \* steps handed to performAction (how many, and the number of the last
    \* one), adjustPlan calls made, performAction rejections, last operation
    nPushed, nSubmitted, lastSubmitted, nAdjust, nFailed, planOp

VARIABLES
    \* handleAgentMessage: the adjustPlan call of a message that waits for
    \* createPlan's language-model request
    msgCall,
    \* history: feedback and recovery steps of the adjustPlan calls made for
    \* messages
    adjustResults

msgVars == << msgCall, adjustResults >>

VARIABLES
    \* createRetryHandler: the outcomes of the operation's attempts, and the
    \* run of each retry handler on it
    outcomes, rt

retryVars == << outcomes, rt >>

VARIABLES
    \* AbstractAgent.initialized, whether this.actionAgent is set, and the
    \* init() or destroy() call that waits for initializeAgent or
    \* destroyAgent
    initialized, actionAgent, lifeCall,
    \* what an adjustPlan call of the client holds while it waits for
    \* generatePlanSteps
    clientAdjust

lifeVars == << initialized, actionAgent, lifeCall, clientAdjust >>

VARIABLES
    \* MemoryAgentImpl.memory: the Plan object remembered under the key
    \* `plan:${goal}`, for every goal
    memory

VARIABLES
    \* a createPlan call of a second caller, for another goal than the
    \* client's, that waits for generatePlanSteps
    otherCall

VARIABLES
    \* ContextManager.contexts of the PlanHandler (adapter.ts): the
    \* PlanContext kept under every goal
    handlerContexts,
    \* the adjustPlan calls of the PlanHandler that wait for the plan
    \* generator, by goal; detached: their context has left the map
    handlerCalls

handlerVars == << handlerContexts, handlerCalls >>

VARIABLES
    \* init() calls that wait in initializeAgent besides the one of lifeCall
    otherInits,
    \* how many times the 'message' and 'interrupt' listeners are registered
    listeners

initVars == << otherInits, listeners >>

planVars == << plans, currentPlan, context, frames, client, goal, clientPlan,
               nPushed, nSubmitted, lastSubmitted, nAdjust, nFailed, planOp,
               msgVars, lifeVars, memory, otherCall, handlerVars, initVars >>

VARIABLES
    \* ActionManager.state
    executing, currentActionLabel, currentActionFn, timedout, resumeSlot,
    \* ActionManager.actionQueue : sequence of action ids
    actionQueue,
    \* environment: whether the last step emitted 'interrupt' on mineflayer
    \* and 'timeout' on the manager, the deadline timers, the action bodies
    interruptEmitted, timeoutEmitted, timer, body,
    \* client calls: number made, their QueuedAction, where each call's
    \* async function is suspended, the queue entry a processQueue loop is
    \* executing, the result of the executeAction/executeResume it awaits,
    \* the value the call's promise settled with, and the microtask queue
    nCalls, act, pc, cur, pend, res, ready,
    \* whether a client has called stop()
    clientStopped,
    \* history: executing at submission, bodies in invocation order, calls in
    \* settlement order, the last operation, stop() calls made by each
    \* timer, actions that were pending when a body's failure was handled
    busy, startOrder, resolveOrder, lastOp, timerStops, discarded

vars == << executing, currentActionLabel, currentActionFn, timedout, resumeSlot,
           actionQueue, interruptEmitted, timeoutEmitted, timer, body,
           nCalls, act, pc, cur, pend, res, ready, clientStopped,
           busy, startOrder, resolveOrder, lastOp, timerStops, discarded,
           planVars, retryVars >>

stateVars == << executing, currentActionLabel, currentActionFn, timedout, resumeSlot >>
histVars == << busy, startOrder, resolveOrder, timerStops, discarded >>
engineVars == << stateVars, actionQueue, interruptEmitted, timeoutEmitted, timer, body,
                 nCalls, act, pc, cur, pend, res, ready, clientStopped,
                 histVars, lastOp >>

Range(s) == { s[i] : i \in 1..Len(s) }

Op(name, id) == [op |-> name, id |-> id]

EmptyResume == [func |-> NoId, name |-> NoId]

LabelOf(a) == IF act[a].hasLabel THEN a ELSE NoId
FnOf(a) == IF act[a].hasFn THEN a ELSE NoId

\* The objects as their constructors leave them
Constructed ==
    /\ executing = FALSE
    /\ currentActionLabel = NoId
    /\ currentActionFn = NoId
    /\ timedout = FALSE
    /\ resumeSlot = EmptyResume
    /\ actionQueue = << >>
    /\ interruptEmitted = FALSE
    /\ timeoutEmitted = FALSE
    /\ timer = [a \in CallIds |-> "none"]
    /\ body = [a \in CallIds |-> "notStarted"]
    /\ nCalls = 0
    /\ act = [c \in CallIds |-> NoAction]
    /\ pc = [c \in CallIds |-> "none"]
    /\ cur = [c \in CallIds |-> NoId]
    /\ pend = [c \in CallIds |-> NoResult]
    /\ res = [c \in CallIds |-> NoResult]
    /\ ready = << >>
    /\ clientStopped = FALSE
    /\ busy = [c \in CallIds |-> FALSE]
    /\ startOrder = << >>
    /\ resolveOrder = << >>
    /\ lastOp = Op("init", NoId)
    /\ timerStops = [a \in CallIds |-> 0]
    /\ discarded = {}
    /\ plans = [p \in PlanIds |-> NoPlanObject]
    /\ currentPlan = NoPlan
    /\ context = NullContext
    /\ frames = [f \in FrameIds |-> FreeFrame]
    /\ client = "idle"
    /\ goal = << >>
    /\ clientPlan = NoPlan
    /\ nPushed = 0
    /\ nSubmitted = 0
    /\ lastSubmitted = 0
    /\ nAdjust = 0
    /\ nFailed = 0
    /\ planOp = Op("init", NoId)
    /\ msgCall = NoMessage
    /\ adjustResults = {}
    /\ outcomes = << >>
    /\ rt = [i \in RetryIds |-> IdleRetry]
    /\ memory = [g \in GoalInputs |-> NoPlan]
    /\ otherCall = NoOther
    /\ otherInits = 0
    /\ handlerContexts = [g \in GoalInputs |-> NoHandlerContext]
    /\ handlerCalls = [g \in GoalInputs |-> NoHandlerCalls]

\* The program after start-up: the planning agent has been constructed and
\* its init() has completed.
Init ==
    /\ Constructed
    /\ initialized = TRUE
    /\ actionAgent = TRUE
    /\ lifeCall = "idle"
    /\ clientAdjust = NoAdjust
    /\ listeners = 1

\* The planning agent right after construction (AbstractAgent's constructor
\* sets initialized = false, actionAgent is null)
InitConstructed ==
    /\ Constructed
    /\ initialized = FALSE
    /\ actionAgent = FALSE
    /\ lifeCall = "idle"
    /\ clientAdjust = NoAdjust
    /\ listeners = 0

\* ------------------------------------------------------- settling a call
\* The promise of call c fulfils with result r.
Resolve(c, r) ==
    /\ res' = [res EXCEPT ![c] = r]
    /\ resolveOrder' = Append(resolveOrder, c)

\* Array.prototype.shift: drops the head, does nothing on an empty array
Shift(q) == IF q = << >> THEN << >> ELSE Tail(q)

\* ------------------------------------------ processQueue: start the head
\* The synchronous part of one loop iteration of processQueue, run by the
\* call c that owns the loop on queue q (non-empty), with rdy the microtask
\* queue left after c's own continuation was taken off: action = q[0], then
\* executeResume / executeAction up to their first await.
\*   executeAction: log, stop() (emit 'interrupt', actionQueue = []), await
\*   executeResume: new function without a label throws; a new function
\*     overwrites the resume slot, sets currentActionLabel and calls
\*     executeAction; no new function returns {success:false, message:null}
StartHead(c, q, rdy) ==
    LET a == Head(q) IN
    /\ cur' = [cur EXCEPT ![c] = a]
    /\ IF ~act'[a].resume
       THEN /\ interruptEmitted' = TRUE
            /\ actionQueue' = << >>
            /\ pc' = [pc EXCEPT ![c] = "afterStop"]
            /\ ready' = Append(rdy, c)
            /\ UNCHANGED << resumeSlot, currentActionLabel, pend, res, resolveOrder >>
       ELSE IF act'[a].hasFn /\ ~act'[a].hasLabel
       THEN \* throw new Error('actionLabel is required for new resume')
            /\ actionQueue' = q
            /\ pc' = [pc EXCEPT ![c] = "rejected"]
            /\ ready' = rdy
            /\ interruptEmitted' = FALSE
            /\ UNCHANGED << resumeSlot, currentActionLabel, pend, res, resolveOrder >>
       ELSE IF act'[a].hasFn
       THEN /\ resumeSlot' = [func |-> a, name |-> a]
            /\ currentActionLabel' = a
            /\ interruptEmitted' = TRUE
            /\ actionQueue' = << >>
            /\ pc' = [pc EXCEPT ![c] = "afterStop"]
            /\ ready' = Append(rdy, c)
            /\ UNCHANGED << pend, res, resolveOrder >>
       ELSE \* canExecute is false
            /\ actionQueue' = q
            /\ pend' = [pend EXCEPT ![c] = ResultNoop]
            /\ pc' = [pc EXCEPT ![c] = "pqAfter"]
            /\ ready' = Append(rdy, c)
            /\ interruptEmitted' = FALSE
            /\ UNCHANGED << resumeSlot, currentActionLabel, res, resolveOrder >>

\* ------------------------------------------- runAction / resumeAction
\* queueAction: push, then processQueue when not executing, else a promise
\* polled by setInterval until the action has left the queue.
QueueAction(in) ==
    LET c == nCalls + 1 IN
    /\ nCalls' = c
    /\ act' = [act EXCEPT ![c] = in]
    /\ busy' = [busy EXCEPT ![c] = executing]
    /\ lastOp' = Op("submit", c)
    /\ IF executing
       THEN /\ actionQueue' = Append(actionQueue, c)
            /\ pc' = [pc EXCEPT ![c] = "polling"]
            /\ interruptEmitted' = FALSE
            /\ UNCHANGED << cur, resumeSlot, currentActionLabel,
                            pend, res, resolveOrder, ready >>
       ELSE StartHead(c, Append(actionQueue, c), ready)
    /\ timeoutEmitted' = FALSE
    /\ UNCHANGED << executing, currentActionFn, timedout, timer,
                    body, clientStopped, startOrder, timerStops, discarded >>
    /\ UNCHANGED << planVars, retryVars >>

\* A client calls runAction or resumeAction with any of the inputs.
Submit(in) == nCalls < MaxCalls /\ QueueAction(in)

\* A client calls runAction(label, fn, {timeout: 0, resume: false}).
PlainRun == [resume |-> FALSE, hasFn |-> TRUE, hasLabel |-> TRUE, timeout |-> 0]

SubmitRun == nCalls < MaxFifoCalls /\ QueueAction(PlainRun)

\* The setInterval callback of a waiting call: resolves once the action is
\* no longer in the queue (a tick that still finds it changes nothing).
Poll(c) ==
    /\ pc[c] = "polling"
    /\ ready = << >>
    /\ c \notin Range(actionQueue)
    /\ pc' = [pc EXCEPT ![c] = "resolved"]
    /\ Resolve(c, ResultSuccess)
    /\ lastOp' = Op("poll", c)
    /\ interruptEmitted' = FALSE
    /\ timeoutEmitted' = FALSE
    /\ UNCHANGED << stateVars, actionQueue, timer, body,
                    nCalls, act, cur, pend, ready, clientStopped,
                    busy, startOrder, timerStops, discarded >>
    /\ UNCHANGED << planVars, retryVars >>

\* Call c's continuation is the next microtask to run.
Runs(c, at) == ready # << >> /\ Head(ready) = c /\ pc[c] = at

\* stop(): mineflayer.emit('interrupt'); this.actionQueue = []
\* (a step that does not call stop() sets interruptEmitted to FALSE)
Stop ==
    /\ interruptEmitted' = TRUE
    /\ actionQueue' = << >>

CancelResumeFuncOnly == resumeSlot' = [resumeSlot EXCEPT !.func = NoId]

\* cancelResume(): both fields of the resume slot become undefined
CancelResume == resumeSlot' = EmptyResume

ResetExecutionStateKeepsTimer(a) ==
    /\ executing' = FALSE
    /\ currentActionLabel' = NoId
    /\ currentActionFn' = NoId
    /\ UNCHANGED timer

\* resetExecutionState(timeoutHandle): clears the execution state and
\* cancels the timer this executeAction armed (a fired timer stays fired)
ResetExecutionState(a) ==
    /\ executing' = FALSE
    /\ currentActionLabel' = NoId
    /\ currentActionFn' = NoId
    /\ timer' = [timer EXCEPT ![a] = IF @ = "armed" THEN "cleared" ELSE @]

\* startTimeout(timeout): setTimeout of timeout minutes
StartTimeout(a) == [timer EXCEPT ![a] = "armed"]

\* ------------------------------------------------------- executeAction
\* After `await this.stop()`: set the execution state, arm the timer when
\* timeout > 0, and invoke the action function.
AfterStop(c) ==
    LET a == cur[c] IN
    /\ Runs(c, "afterStop")
    /\ executing' = TRUE
    /\ currentActionLabel' = LabelOf(a)
    /\ currentActionFn' = FnOf(a)
    /\ timer' = IF act[a].timeout > 0 THEN StartTimeout(a) ELSE timer
    /\ IF FnOf(a) # NoId
       THEN /\ body' = [body EXCEPT ![a] = "running"]
            /\ startOrder' = Append(startOrder, a)
            /\ pc' = [pc EXCEPT ![c] = "awaitBody"]
            /\ ready' = Tail(ready)
       ELSE \* actionFn?.() is undefined: the await resumes on the next tick
            /\ pc' = [pc EXCEPT ![c] = "settledOk"]
            /\ ready' = Append(Tail(ready), c)
            /\ UNCHANGED << body, startOrder >>
    /\ lastOp' = Op("start", a)
    /\ interruptEmitted' = FALSE
    /\ timeoutEmitted' = FALSE
    /\ UNCHANGED << timedout, resumeSlot, actionQueue, nCalls, act, cur, pend, res, clientStopped,
                    busy, resolveOrder, timerStops, discarded >>
    /\ UNCHANGED << planVars, retryVars >>

\* The action body (external) returns normally / throws; the awaiting
\* executeAction is queued as a microtask.
BodyReturn(a) ==
    /\ body[a] = "running"
    /\ body' = [body EXCEPT ![a] = "returned"]
    /\ \E c \in CallIds :
          /\ pc[c] = "awaitBody" /\ cur[c] = a
          /\ pc' = [pc EXCEPT ![c] = "settledOk"]
          /\ ready' = Append(ready, c)
    /\ lastOp' = Op("bodyReturn", a)
    /\ interruptEmitted' = FALSE
    /\ timeoutEmitted' = FALSE
    /\ UNCHANGED << stateVars, actionQueue, timer,
                    nCalls, act, cur, pend, res, clientStopped, histVars >>
    /\ UNCHANGED << planVars, retryVars >>

BodyThrow(a) ==
    /\ body[a] = "running"
    /\ body' = [body EXCEPT ![a] = "threw"]
    /\ \E c \in CallIds :
          /\ pc[c] = "awaitBody" /\ cur[c] = a
          /\ pc' = [pc EXCEPT ![c] = "settledErr"]
          /\ ready' = Append(ready, c)
    /\ lastOp' = Op("bodyThrow", a)
    /\ interruptEmitted' = FALSE
    /\ timeoutEmitted' = FALSE
    /\ UNCHANGED << stateVars, actionQueue, timer,
                    nCalls, act, cur, pend, res, clientStopped, histVars >>
    /\ UNCHANGED << planVars, retryVars >>

\* Where the result of executeAction goes: back into executeResume when the
\* action was started by it, else straight to processQueue.
ReturnTo(a) == IF act[a].resume THEN "resumeAfter" ELSE "pqAfter"

\* try block after `await actionFn?.()`: resetExecutionState, return
\* {success:true, message:'success'}
ExecSuccess(c) ==
    LET a == cur[c] IN
    /\ Runs(c, "settledOk")
    /\ ResetExecutionState(a)
    /\ pend' = [pend EXCEPT ![c] = ResultSuccess]
    /\ pc' = [pc EXCEPT ![c] = ReturnTo(a)]
    /\ ready' = Append(Tail(ready), c)
    /\ lastOp' = Op("execSuccess", a)
    /\ interruptEmitted' = FALSE
    /\ timeoutEmitted' = FALSE
    /\ UNCHANGED << timedout, resumeSlot, actionQueue, body, nCalls, act, cur, res, clientStopped, histVars >>
    /\ UNCHANGED << planVars, retryVars >>

ExecCatchSwallow(c) ==
    LET a == cur[c] IN
    /\ Runs(c, "settledErr")
    /\ ResetExecutionState(a)
    /\ CancelResume
    /\ discarded' = discarded \cup Range(actionQueue)
    /\ pend' = [pend EXCEPT ![c] = ResultSuccess]
    /\ pc' = [pc EXCEPT ![c] = ReturnTo(a)]
    /\ ready' = Append(Tail(ready), c)
    /\ lastOp' = Op("execCatch", a)
    /\ interruptEmitted' = FALSE
    /\ timeoutEmitted' = FALSE
    /\ UNCHANGED << timedout, body, nCalls, act, cur, res, clientStopped,
                    actionQueue, busy, startOrder, resolveOrder, timerStops >>
    /\ UNCHANGED << planVars, retryVars >>

\* catch block up to its await: resetExecutionState, cancelResume, stop()
ExecCatch(c) ==
    LET a == cur[c] IN
    /\ Runs(c, "settledErr")
    /\ ResetExecutionState(a)
    /\ CancelResume
    /\ Stop
    /\ discarded' = discarded \cup Range(actionQueue)
    /\ pc' = [pc EXCEPT ![c] = "afterCatchStop"]
    /\ ready' = Append(Tail(ready), c)
    /\ lastOp' = Op("execCatch", a)
    /\ timeoutEmitted' = FALSE
    /\ UNCHANGED << timedout, body, nCalls, act, cur, pend, res, clientStopped,
                    busy, startOrder, resolveOrder, timerStops >>
    /\ UNCHANGED << planVars, retryVars >>

\* catch block after `await this.stop()`: return {success:false, 'failed'}
AfterCatchStop(c) ==
    LET a == cur[c] IN
    /\ Runs(c, "afterCatchStop")
    /\ pend' = [pend EXCEPT ![c] = ResultFailed]
    /\ pc' = [pc EXCEPT ![c] = ReturnTo(a)]
    /\ ready' = Append(Tail(ready), c)
    /\ lastOp' = Op("execFailed", a)
    /\ interruptEmitted' = FALSE
    /\ timeoutEmitted' = FALSE
    /\ UNCHANGED << stateVars, actionQueue, timer, body,
                    nCalls, act, cur, res, clientStopped, histVars >>
    /\ UNCHANGED << planVars, retryVars >>

\* executeResume after `await this.executeAction(...)`
ResumeAfter(c) ==
    /\ Runs(c, "resumeAfter")
    /\ currentActionLabel' = NoId
    /\ pc' = [pc EXCEPT ![c] = "pqAfter"]
    /\ ready' = Append(Tail(ready), c)
    /\ lastOp' = Op("resumeAfter", cur[c])
    /\ interruptEmitted' = FALSE
    /\ timeoutEmitted' = FALSE
    /\ UNCHANGED << executing, currentActionFn, timedout, resumeSlot, actionQueue,
                    timer, body,
                    nCalls, act, cur, pend, res, clientStopped, histVars >>
    /\ UNCHANGED << planVars, retryVars >>

\* ------------------------------------------------------- processQueue
\* After the await of the loop body: shift, on failure clear the queue and
\* return the result, else go round the loop (start the next head, or
\* return {success:true, message:'success'} when the queue is empty).
PqAfter(c) ==
    LET q == Shift(actionQueue) IN
    /\ Runs(c, "pqAfter")
    /\ UNCHANGED act
    /\ lastOp' = Op("pqAfter", c)
    /\ IF ~pend[c].success
       THEN /\ actionQueue' = << >>
            /\ pc' = [pc EXCEPT ![c] = "resolved"]
            /\ Resolve(c, pend[c])
            /\ ready' = Tail(ready)
            /\ interruptEmitted' = FALSE
            /\ UNCHANGED << cur, resumeSlot, currentActionLabel, pend >>
       ELSE IF q = << >>
       THEN /\ actionQueue' = << >>
            /\ pc' = [pc EXCEPT ![c] = "resolved"]
            /\ Resolve(c, ResultSuccess)
            /\ ready' = Tail(ready)
            /\ interruptEmitted' = FALSE
            /\ UNCHANGED << cur, resumeSlot, currentActionLabel, pend >>
       ELSE StartHead(c, q, Tail(ready))
    /\ timeoutEmitted' = FALSE
    /\ UNCHANGED << executing, currentActionFn, timedout, timer, body,
                    nCalls, clientStopped, busy, startOrder, timerStops, discarded >>
    /\ UNCHANGED << planVars, retryVars >>

\* ------------------------------------------------------- startTimeout
TimerFireRepeating(a) ==
    /\ timer[a] = "armed"
    /\ ready = << >>
    /\ timedout' = TRUE
    /\ timeoutEmitted' = TRUE
    /\ Stop
    /\ timerStops' = [timerStops EXCEPT ![a] = @ + 1]
    /\ lastOp' = Op("timerFire", a)
    /\ UNCHANGED << executing, currentActionLabel, currentActionFn, resumeSlot, body,
                    timer, nCalls, act, pc, cur, pend, res, ready, clientStopped,
                    busy, startOrder, resolveOrder, discarded >>
    /\ UNCHANGED << planVars, retryVars >>

TimerFireResolvesCaller(a) ==
    /\ timer[a] = "armed"
    /\ ready = << >>
    /\ timer' = [timer EXCEPT ![a] = "fired"]
    /\ timedout' = TRUE
    /\ timeoutEmitted' = TRUE
    /\ Stop
    /\ timerStops' = [timerStops EXCEPT ![a] = @ + 1]
    /\ lastOp' = Op("timerFire", a)
    /\ executing' = FALSE
    /\ \E c \in CallIds :
          /\ pc[c] = "awaitBody" /\ cur[c] = a
          /\ pc' = [pc EXCEPT ![c] = "resolved"]
          /\ Resolve(c, ResultFailed)
    /\ UNCHANGED << currentActionLabel, currentActionFn, resumeSlot, body,
                    nCalls, act, cur, pend, ready, clientStopped,
                    busy, startOrder, discarded >>
    /\ UNCHANGED << planVars, retryVars >>

\* The setTimeout callback: timedout = true, emit('timeout'), stop()
TimerFire(a) ==
    /\ timer[a] = "armed"
    /\ ready = << >>
    /\ timer' = [timer EXCEPT ![a] = "fired"]
    /\ timedout' = TRUE
    /\ timeoutEmitted' = TRUE
    /\ Stop
    /\ timerStops' = [timerStops EXCEPT ![a] = @ + 1]
    /\ lastOp' = Op("timerFire", a)
    /\ UNCHANGED << executing, currentActionLabel, currentActionFn, resumeSlot, body,
                    nCalls, act, pc, cur, pend, res, ready, clientStopped,
                    busy, startOrder, resolveOrder, discarded >>
    /\ UNCHANGED << planVars, retryVars >>

\* ------------------------------------------------------- client control
ClientStopResetsState ==
    /\ clientStopped' = TRUE
    /\ Stop
    /\ executing' = FALSE
    /\ currentActionLabel' = NoId
    /\ currentActionFn' = NoId
    /\ lastOp' = Op("stop", NoId)
    /\ timeoutEmitted' = FALSE
    /\ UNCHANGED << timedout, resumeSlot, timer, body,
                    nCalls, act, pc, cur, pend, res, ready, histVars >>
    /\ UNCHANGED << planVars, retryVars >>

\* stop() called by a client
ClientStop ==
    /\ clientStopped' = TRUE
    /\ Stop
    /\ lastOp' = Op("stop", NoId)
    /\ timeoutEmitted' = FALSE
    /\ UNCHANGED << stateVars, timer, body,
                    nCalls, act, pc, cur, pend, res, ready, histVars >>
    /\ UNCHANGED << planVars, retryVars >>

\* cancelResume() called by a client
ClientCancelResume ==
    /\ CancelResume
    /\ lastOp' = Op("cancelResume", NoId)
    /\ interruptEmitted' = FALSE
    /\ timeoutEmitted' = FALSE
    /\ UNCHANGED << executing, currentActionLabel, currentActionFn, timedout,
                    actionQueue, timer, body,
                    nCalls, act, pc, cur, pend, res, ready, clientStopped, histVars >>
    /\ UNCHANGED << planVars, retryVars >>

Next ==
    \/ \E in \in ActionInputs : Submit(in)
    \/ \E c \in CallIds : Poll(c)
    \/ \E c \in CallIds : AfterStop(c)
    \/ \E a \in CallIds : BodyReturn(a)
    \/ \E a \in CallIds : BodyThrow(a)
    \/ \E c \in CallIds : ExecSuccess(c)
    \/ \E c \in CallIds : ExecCatch(c)
    \/ \E c \in CallIds : AfterCatchStop(c)
    \/ \E c \in CallIds : ResumeAfter(c)
    \/ \E c \in CallIds : PqAfter(c)
    \/ \E a \in CallIds : TimerFire(a)
    \/ ClientStop
    \/ ClientCancelResume

Spec == Init /\ [][Next]_vars

\* The FIFO scenario: clients only make plain runAction calls (no timeout,
\* no resume) and nobody calls stop() or cancelResume().
NextFifo ==
    \/ SubmitRun
    \/ \E c \in CallIds : Poll(c)
    \/ \E c \in CallIds : AfterStop(c)
    \/ \E a \in CallIds : BodyReturn(a)
    \/ \E a \in CallIds : BodyThrow(a)
    \/ \E c \in CallIds : ExecSuccess(c)
    \/ \E c \in CallIds : ExecCatch(c)
    \/ \E c \in CallIds : AfterCatchStop(c)
    \/ \E c \in CallIds : PqAfter(c)

SpecFifo == Init /\ [][NextFifo]_vars

TypeOK ==
    /\ executing \in BOOLEAN
    /\ timedout \in BOOLEAN
    /\ currentActionLabel \in CallIds \cup {NoId}
    /\ currentActionFn \in CallIds \cup {NoId}
    /\ Range(actionQueue) \subseteq 1..nCalls
    /\ Range(ready) \subseteq 1..nCalls

\* ============================================================ planner
\* PlanningAgentImpl: createPlan, executePlan with its producer
\* (generateStepsStream) and consumer (executeStepsStream) tasks, adjustPlan
\* and handleInterrupt.  The language model, performAction, the 100 ms wait
\* of the consumer and the 'interrupt' event are external: each of their
\* completions is one action, which runs the code up to the next such wait.

\* ---------------------------------------------- parseGoalRequirements
ItemVerbs == { "collect", "get", "find", "craft", "make", "build", "use", "equip" }
TargetVerbs == { "use", "open", "activate" }
NumberWords == { "0", "10", "64" }

\* goal.match(/(collect|...|equip) (\w+)/g).map(m => m.split(' ')[1])
RECURSIVE ItemsFrom(_, _)
ItemsFrom(g, i) ==
    IF i >= Len(g) THEN << >>
    ELSE IF g[i] \in ItemVerbs THEN << g[i + 1] >> \o ItemsFrom(g, i + 2)
    ELSE ItemsFrom(g, i + 1)

HasLocation(g) ==
    \E i \in 1..Len(g) :
        /\ \/ g[i] = "at"
           \/ i > 1 /\ g[i] = "to" /\ g[i - 1] \in { "go", "move" }
        /\ i + 3 <= Len(g)
        /\ \A j \in 1..3 : g[i + j] \in NumberWords

HasTarget(g) ==
    \E i \in 1..(Len(g) - 1) :
        \/ g[i] \in TargetVerbs
        \/ i > 1 /\ g[i - 1] = "interact" /\ g[i] = "with"

ParseGoalRequirements(g) ==
    LET items == ItemsFrom(g, 1)
        has(ws) == Words(g) \cap ws # {}
        crafting == has({ "craft", "make", "build" })
        combat == has({ "attack", "fight", "kill" })
        gathering == has({ "collect", "get", "find" })
    IN  [ needsItems |-> items # << >> \/ gathering \/ crafting,
          items |-> items,
          needsMovement |-> \/ HasLocation(g) \/ gathering \/ combat
                            \/ IncludesAny(g, { << "go", "to" >>, << "move", "to" >> })
                            \/ has({ "follow" }),
          hasLocation |-> HasLocation(g),
          needsInteraction |-> HasTarget(g) \/ has({ "interact", "use", "open" }),
          hasTarget |-> HasTarget(g),
          needsCrafting |-> crafting,
          needsCombat |-> combat ]

DoesGoalRequireAction(r) ==
    \/ r.needsItems \/ r.needsMovement \/ r.needsInteraction
    \/ r.needsCrafting \/ r.needsCombat

\* generateGatheringSteps: a search and a collect step for every item
RECURSIVE GenerateGatheringSteps(_)
GenerateGatheringSteps(items) ==
    IF items = << >> THEN << >>
    ELSE << "searchForBlock", "collectBlocks" >> \o GenerateGatheringSteps(Tail(items))

\* isGoalAchieved: the tools of the steps it pushes to pendingSteps; it
\* answers true exactly when it pushes none.
GoalSteps(g) ==
    LET r == ParseGoalRequirements(g) IN
    IF r.needsItems /\ r.items # << >> THEN GenerateGatheringSteps(r.items)
    ELSE IF r.needsMovement /\ r.hasLocation THEN << "goToCoordinates" >>
    ELSE IF r.needsInteraction /\ r.hasTarget THEN << "activate" >>
    ELSE << >>

IsGoalAchievedNever(g) == FALSE

IsGoalAchieved(g) == GoalSteps(g) = << >>

\* ------------------------------------------------ generateRecoverySteps
\* The table is walked top to bottom; every matching row appends its steps.
GenerateRecoverySteps(feedback) ==
    (IF Includes(feedback, << "not", "found" >>)
        THEN << Step("recovery", "searchForBlock", 1) >> ELSE << >>)
    \o (IF Includes(feedback, << "inventory", "full" >>)
        THEN << Step("recovery", "discard", 2) >> ELSE << >>)
    \o (IF IncludesAny(feedback, { << "blocked" >>, << "cannot", "reach" >> })
        THEN << Step("recovery", "moveAway", 3) >> ELSE << >>)
    \o (IF Includes(feedback, << "too", "far" >>)
        THEN << Step("recovery", "moveAway", 4) >> ELSE << >>)
    \o (IF Includes(feedback, << "need", "tool" >>)
        THEN << Step("recovery", "craftRecipe", 5), Step("recovery", "equip", 6) >>
        ELSE << >>)

\* The steps of one answer of generatePlanSteps (k steps)
PlanSteps(k) == [i \in 1..k |-> Step("plan", "llm", i)]

\* Steps with the given tools, numbered from n + 1 in push order
Numbered(origin, tools, n) ==
    [i \in 1..Len(tools) |-> Step(origin, tools[i], n + i)]


\* ------------------------------------------------- the agent's objects
\* The part of the state the continuations of one event work on.
Agent == [plans |-> plans, currentPlan |-> currentPlan, context |-> context,
          frames |-> frames, client |-> client]

SetAgent(S) ==
    /\ plans' = S.plans
    /\ currentPlan' = S.currentPlan
    /\ context' = S.context
    /\ frames' = S.frames
    /\ client' = S.client

FreeFrames == { f \in FrameIds : frames[f].state = "free" }
FreePlans == { p \in PlanIds : plans[p].status = "none" }
NewFrame == CHOOSE f \in FreeFrames : \A g \in FreeFrames : f <= g
NewPlan == CHOOSE p \in FreePlans : \A q \in FreePlans : p <= q

\* One task of frame f (which: "gen" or "exec") ends with how ("done" or
\* "failed", err the error).  Promise.all in generateAndExecutePlanSteps
\* rejects with the first rejection and fulfils when both tasks have
\* fulfilled; executePlan then sets plan.status ('failed' in the catch
\* block, 'completed' otherwise), clears this.context in its finally block
\* and settles; its caller is the client or the consumer task of the
\* parent frame, which returns (or rethrows) in turn.
RECURSIVE TaskEnds(_, _, _, _, _)
TaskEnds(S, f, which, how, err) ==
    LET fr == S.frames[f]
        S1 == [S EXCEPT !.frames[f][which] = how, !.frames[f].errs[which] = err]
        other == IF which = "gen" THEN fr.exec ELSE fr.gen
        settles == /\ fr.state = "running"
                   /\ how = "failed" \/ other = "done"
        S2 == [S1 EXCEPT
                 !.plans[fr.plan].status =
                     IF how = "failed" THEN "failed" ELSE "completed",
                 !.context = NullContext,
                 !.frames[f].state = IF how = "failed" THEN "threw" ELSE "returned",
                 !.frames[f].err = err,
                 !.frames[f].stepsDone =
                     IF S.context.exists THEN S.context.currentStep ELSE -1]
    IN  IF ~settles THEN S1
        ELSE IF fr.parent = NoFrame
        THEN [S2 EXCEPT !.client = IF how = "failed" THEN "threw" ELSE "returned"]
        ELSE TaskEnds(S2, fr.parent, "exec", how, err)

ExecutePlanIgnoringFlag(S, f, p, caller) ==
    LET fresh == [FreeFrame EXCEPT !.plan = p, !.parent = caller]
        back(T, st) ==
            IF caller = NoFrame
            THEN [T EXCEPT !.frames[f].state = st, !.client = st]
            ELSE TaskEnds([T EXCEPT !.frames[f].state = st], caller, "exec", "done", "none")
        S1 == [S EXCEPT !.frames[f] = fresh]
        S2 == [S1 EXCEPT !.plans[p].status = "in_progress", !.currentPlan = p]
    IN  IF ~S.context.exists
        THEN back([S2 EXCEPT !.plans[p].status = "completed"], "returned")
        ELSE [S2 EXCEPT !.context.isGenerating = TRUE,
                        !.context.pendingSteps = << >>,
                        !.frames[f].state = "running",
                        !.frames[f].gen = "llm",
                        !.frames[f].exec = "sleep"]

\* executePlan(p) called by caller (NoFrame: the client), up to its first
\* wait.  A plan without requiresAction returns at once and untouched.
\* Otherwise status = 'in_progress', currentPlan = p, and
\* generateAndExecutePlanSteps: without a context it returns at once (the
\* plan completes); with one it sets isGenerating, empties pendingSteps,
\* starts the producer (first language-model request) and the consumer
\* (isGenerating and nothing pending: first 100 ms wait).
ExecutePlan(S, f, p, caller) ==
    LET fresh == [FreeFrame EXCEPT !.plan = p, !.parent = caller]
        back(T, st) ==
            IF caller = NoFrame
            THEN [T EXCEPT !.frames[f].state = st, !.client = st]
            ELSE TaskEnds([T EXCEPT !.frames[f].state = st], caller, "exec", "done", "none")
        S1 == [S EXCEPT !.frames[f] = fresh]
        S2 == [S1 EXCEPT !.plans[p].status = "in_progress", !.currentPlan = p]
    IN  IF ~S.plans[p].requiresAction THEN back(S1, "returned")
        ELSE IF ~S.context.exists
        THEN back([S2 EXCEPT !.plans[p].status = "completed"], "returned")
        ELSE [S2 EXCEPT !.context.isGenerating = TRUE,
                        !.context.pendingSteps = << >>,
                        !.frames[f].state = "running",
                        !.frames[f].gen = "llm",
                        !.frames[f].exec = "sleep"]


\* ----------------------------------------------------------- createPlan
FreshContext(g) ==
    [exists |-> TRUE, goal |-> g, currentStep |-> 0, retryCount |-> 0,
     isGenerating |-> FALSE, pendingSteps |-> << >>]

\* createPlan(g) up to its first wait: no cached plan (there is no memory
\* agent); a goal that needs no action returns an empty completed plan and
\* sets neither currentPlan nor context; any other goal asks the language
\* model for the plan's steps.
CreatePlan(g) ==
    /\ client = "idle"
    /\ goal' = g
    /\ IF ~DoesGoalRequireAction(ParseGoalRequirements(g))
       THEN /\ plans' = [plans EXCEPT ![NewPlan] =
                           [status |-> "completed", requiresAction |-> FALSE,
                            steps |-> << >>]]
            /\ clientPlan' = NewPlan
            /\ client' = "created"
       ELSE /\ client' = "creating"
            /\ UNCHANGED << plans, clientPlan >>
    /\ planOp' = Op("createPlan", NoId)
    /\ UNCHANGED << currentPlan, context, frames, nPushed, nSubmitted, lastSubmitted, nAdjust, nFailed >>
    /\ UNCHANGED engineVars
    /\ UNCHANGED msgVars
    /\ UNCHANGED << retryVars, lifeVars, memory, otherCall, handlerVars, initVars >>

\* generatePlanSteps answers with k steps: the plan is pending, and it
\* becomes currentPlan with a fresh context.
CreatePlanAnswer(k) ==
    /\ client = "creating"
    /\ plans' = [plans EXCEPT ![NewPlan] =
                    [status |-> "pending", requiresAction |-> TRUE,
                     steps |-> PlanSteps(k)]]
    /\ currentPlan' = NewPlan
    /\ context' = FreshContext(goal)
    /\ clientPlan' = NewPlan
    /\ client' = "created"
    /\ planOp' = Op("createPlanAnswer", NoId)
    /\ UNCHANGED << frames, goal, nPushed, nSubmitted, lastSubmitted, nAdjust, nFailed >>
    /\ UNCHANGED engineVars
    /\ UNCHANGED msgVars
    /\ UNCHANGED << retryVars, lifeVars, memory, otherCall, handlerVars, initVars >>

\* generatePlanSteps rejects: createPlan logs and rethrows
CreatePlanFails ==
    /\ client = "creating"
    /\ client' = "createFailed"
    /\ planOp' = Op("createPlanFails", NoId)
    /\ UNCHANGED << plans, currentPlan, context, frames, goal, clientPlan,
                    nPushed, nSubmitted, lastSubmitted, nAdjust, nFailed >>
    /\ UNCHANGED engineVars
    /\ UNCHANGED msgVars
    /\ UNCHANGED << retryVars, lifeVars, memory, otherCall, handlerVars, initVars >>

\* The client calls executePlan on the plan createPlan gave it.
ClientExecutePlan ==
    /\ client = "created"
    /\ SetAgent(ExecutePlan([Agent EXCEPT !.client = "executing"],
                            NewFrame, clientPlan, NoFrame))
    /\ planOp' = Op("executePlan", NewFrame)
    /\ UNCHANGED << goal, clientPlan, nPushed, nSubmitted, lastSubmitted, nAdjust, nFailed >>
    /\ UNCHANGED engineVars
    /\ UNCHANGED msgVars
    /\ UNCHANGED << retryVars, lifeVars, memory, otherCall, handlerVars, initVars >>


\* ------------------------------------- generateStepsStream (producer)
\* The language model answers the step generator of frame f with k steps.
\*   k = 0: the generator ends.  Otherwise the chunk is yielded: the loop
\*   body breaks when isGenerating is off, else pushes the chunk; a short
\*   chunk ends the generator; after a full chunk isGoalAchieved pushes the
\*   goal's own steps and the generator asks for the next chunk, or answers
\*   true and the generator ends.  However the loop ends, the finally block
\*   sets context.isGenerating = false; every context access throws a
\*   TypeError once this.context is null.
GenAnswer(f, k) ==
    LET S == [Agent EXCEPT !.frames[f].chunks = IF k > 0 THEN @ + 1 ELSE @]
        chunk == Numbered("llm", [i \in 1..k |-> "llm"], nPushed)
        extra == Numbered("goal", GoalSteps(goal), nPushed + k)
        off(T) == [T EXCEPT !.context.isGenerating = FALSE]
        pushed(T, steps) ==
            [T EXCEPT !.context.pendingSteps = @ \o steps]
    IN
    /\ frames[f].gen = "llm"
    /\ nPushed + k + (IF k = chunkSize THEN Len(GoalSteps(goal)) ELSE 0) <= MaxPushed
    /\ IF ~context.exists
       THEN /\ SetAgent(TaskEnds(S, f, "gen", "failed", "type"))
            /\ UNCHANGED nPushed
       ELSE IF k = 0 \/ ~context.isGenerating
       THEN /\ SetAgent(TaskEnds(off(S), f, "gen", "done", "none"))
            /\ UNCHANGED nPushed
       ELSE IF k < chunkSize
       THEN /\ SetAgent(TaskEnds(off(pushed(S, chunk)), f, "gen", "done", "none"))
            /\ nPushed' = nPushed + k
       ELSE IF IsGoalAchieved(goal)
       THEN /\ SetAgent(TaskEnds(off(pushed(S, chunk)), f, "gen", "done", "none"))
            /\ nPushed' = nPushed + k
       ELSE /\ SetAgent(pushed(S, chunk \o extra))
            /\ nPushed' = nPushed + k + Len(extra)
    /\ planOp' = Op("genAnswer", f)
    /\ UNCHANGED << goal, clientPlan, nSubmitted, lastSubmitted, nAdjust, nFailed >>
    /\ UNCHANGED engineVars
    /\ UNCHANGED msgVars
    /\ UNCHANGED << retryVars, lifeVars, memory, otherCall, handlerVars, initVars >>

GenFailsSwallowed(f) ==
    /\ frames[f].gen = "llm"
    /\ IF ~context.exists
       THEN SetAgent(TaskEnds(Agent, f, "gen", "failed", "type"))
       ELSE SetAgent(TaskEnds([Agent EXCEPT !.context.isGenerating = FALSE],
                              f, "gen", "done", "llm"))
    /\ planOp' = Op("genFails", f)
    /\ UNCHANGED << goal, clientPlan, nPushed, nSubmitted, lastSubmitted, nAdjust, nFailed >>
    /\ UNCHANGED engineVars
    /\ UNCHANGED msgVars
    /\ UNCHANGED << retryVars, lifeVars, memory, otherCall, handlerVars, initVars >>

\* The language model request of the step generator rejects: the catch
\* block rethrows, after the finally block has run.
GenFails(f) ==
    /\ frames[f].gen = "llm"
    /\ IF ~context.exists
       THEN SetAgent(TaskEnds(Agent, f, "gen", "failed", "type"))
       ELSE SetAgent(TaskEnds([Agent EXCEPT !.context.isGenerating = FALSE],
                              f, "gen", "failed", "llm"))
    /\ planOp' = Op("genFails", f)
    /\ UNCHANGED << goal, clientPlan, nPushed, nSubmitted, lastSubmitted, nAdjust, nFailed >>
    /\ UNCHANGED engineVars
    /\ UNCHANGED msgVars
    /\ UNCHANGED << retryVars, lifeVars, memory, otherCall, handlerVars, initVars >>

\* -------------------------------------- executeStepsStream (consumer)
ConsumerExitsOnEmpty(S, f) ==
    IF ~S.context.exists
    THEN [agent |-> TaskEnds(S, f, "exec", "failed", "type"), sub |-> << >>]
    ELSE IF S.context.pendingSteps = << >>
    THEN [agent |-> TaskEnds(S, f, "exec", "done", "none"), sub |-> << >>]
    ELSE [agent |-> [S EXCEPT !.context.pendingSteps = Tail(@),
                              !.frames[f].exec = "acting",
                              !.frames[f].step = Head(S.context.pendingSteps),
                              !.frames[f].nsub = @ + 1],
          sub |-> << Head(S.context.pendingSteps) >>]

ConsumerPopsLast(S, f) ==
    LET q == S.context.pendingSteps IN
    IF ~S.context.exists
    THEN [agent |-> TaskEnds(S, f, "exec", "failed", "type"), sub |-> << >>]
    ELSE IF ~S.context.isGenerating /\ q = << >>
    THEN [agent |-> TaskEnds(S, f, "exec", "done", "none"), sub |-> << >>]
    ELSE IF q = << >>
    THEN [agent |-> [S EXCEPT !.frames[f].exec = "sleep"], sub |-> << >>]
    ELSE [agent |-> [S EXCEPT !.context.pendingSteps = SubSeq(q, 1, Len(q) - 1),
                              !.frames[f].exec = "acting",
                              !.frames[f].step = q[Len(q)],
                              !.frames[f].nsub = @ + 1],
          sub |-> << q[Len(q)] >>]

\* The head of the while loop of frame f's consumer: leave the loop when
\* nothing is being generated and nothing is pending, wait 100 ms when
\* nothing is pending, else shift the next step and call performAction.
\* Answers the agent and the steps handed to performAction (none or one).
Consumer(S, f) ==
    IF ~S.context.exists
    THEN [agent |-> TaskEnds(S, f, "exec", "failed", "type"), sub |-> << >>]
    ELSE IF ~S.context.isGenerating /\ S.context.pendingSteps = << >>
    THEN [agent |-> TaskEnds(S, f, "exec", "done", "none"), sub |-> << >>]
    ELSE IF S.context.pendingSteps = << >>
    THEN [agent |-> [S EXCEPT !.frames[f].exec = "sleep"], sub |-> << >>]
    ELSE [agent |-> [S EXCEPT !.context.pendingSteps = Tail(@),
                              !.frames[f].exec = "acting",
                              !.frames[f].step = Head(S.context.pendingSteps),
                              !.frames[f].nsub = @ + 1],
          sub |-> << Head(S.context.pendingSteps) >>]

\* The 100 ms wait of frame f's consumer is over.
Tick(f) ==
    /\ frames[f].exec = "sleep"
    /\ LET r == Consumer(Agent, f) IN
          /\ SetAgent(r.agent)
          /\ nSubmitted' = nSubmitted + Len(r.sub)
          /\ lastSubmitted' = IF r.sub = << >> THEN lastSubmitted ELSE r.sub[1].n
    /\ planOp' = Op("tick", f)
    /\ UNCHANGED << goal, clientPlan, nPushed, nAdjust, nFailed >>
    /\ UNCHANGED engineVars
    /\ UNCHANGED msgVars
    /\ UNCHANGED << retryVars, lifeVars, memory, otherCall, handlerVars, initVars >>

\* performAction fulfils: lastUpdate, currentStep++, next iteration.
StepSucceeds(f) ==
    /\ frames[f].exec = "acting"
    /\ LET A == [Agent EXCEPT !.frames[f].step = NoStep]
           r == IF ~context.exists
                THEN [agent |-> TaskEnds(A, f, "exec", "failed", "type"),
                      sub |-> << >>]
                ELSE Consumer([A EXCEPT !.context.currentStep = @ + 1], f)
       IN /\ SetAgent(r.agent)
          /\ nSubmitted' = nSubmitted + Len(r.sub)
          /\ lastSubmitted' = IF r.sub = << >> THEN lastSubmitted ELSE r.sub[1].n
    /\ planOp' = Op("stepSucceeds", f)
    /\ UNCHANGED << goal, clientPlan, nPushed, nAdjust, nFailed >>
    /\ UNCHANGED engineVars
    /\ UNCHANGED msgVars
    /\ UNCHANGED << retryVars, lifeVars, memory, otherCall, handlerVars, initVars >>


StepFailsOffByOne(f, feedback) ==
    /\ frames[f].exec = "acting"
    /\ IF ~context.exists
       THEN /\ SetAgent(TaskEnds([Agent EXCEPT !.frames[f].step = NoStep],
                                 f, "exec", "failed", "type"))
            /\ UNCHANGED nAdjust
       ELSE IF context.retryCount <= maxRetries
       THEN /\ SetAgent([Agent EXCEPT
                   !.frames[f].step = NoStep,
                   !.context.retryCount = @ + 1,
                   !.context.isGenerating = FALSE,
                   !.context.pendingSteps = << >>,
                   !.frames[f].exec = "adjusting",
                   !.frames[f].adj =
                       [plan |-> currentPlan,
                        currentStep |-> context.currentStep,
                        recovery |-> GenerateRecoverySteps(feedback)]])
            /\ nAdjust' = nAdjust + 1
       ELSE /\ SetAgent(TaskEnds([Agent EXCEPT !.frames[f].step = NoStep],
                                 f, "exec", "failed", "step"))
            /\ UNCHANGED nAdjust
    /\ nFailed' = nFailed + 1
    /\ planOp' = Op("stepFails", f)
    /\ UNCHANGED << goal, clientPlan, nPushed, nSubmitted, lastSubmitted >>
    /\ UNCHANGED engineVars
    /\ UNCHANGED msgVars
    /\ UNCHANGED << retryVars, lifeVars, memory, otherCall, handlerVars, initVars >>

\* performAction rejects with an error whose message is feedback.  With
\* retries left: retryCount++, isGenerating = false, pendingSteps = [],
\* adjustPlan(this.currentPlan, message) up to its language-model request
\* (currentStep read, recovery steps derived).  Otherwise rethrow.
StepFails(f, feedback) ==
    /\ frames[f].exec = "acting"
    /\ IF ~context.exists
       THEN /\ SetAgent(TaskEnds([Agent EXCEPT !.frames[f].step = NoStep],
                                 f, "exec", "failed", "type"))
            /\ UNCHANGED nAdjust
       ELSE IF context.retryCount < maxRetries
       THEN /\ SetAgent([Agent EXCEPT
                   !.frames[f].step = NoStep,
                   !.context.retryCount = @ + 1,
                   !.context.isGenerating = FALSE,
                   !.context.pendingSteps = << >>,
                   !.frames[f].exec = "adjusting",
                   !.frames[f].adj =
                       [plan |-> currentPlan,
                        currentStep |-> context.currentStep,
                        recovery |-> GenerateRecoverySteps(feedback)]])
            /\ nAdjust' = nAdjust + 1
       ELSE /\ SetAgent(TaskEnds([Agent EXCEPT !.frames[f].step = NoStep],
                                 f, "exec", "failed", "step"))
            /\ UNCHANGED nAdjust
    /\ nFailed' = nFailed + 1
    /\ planOp' = Op("stepFails", f)
    /\ UNCHANGED << goal, clientPlan, nPushed, nSubmitted, lastSubmitted >>
    /\ UNCHANGED engineVars
    /\ UNCHANGED msgVars
    /\ UNCHANGED << retryVars, lifeVars, memory, otherCall, handlerVars, initVars >>

Min(a, b) == IF a < b THEN a ELSE b

\* adjustPlan's generatePlanSteps answers with k steps: the adjusted plan
\* is the old plan's first currentStep steps, the recovery steps and the
\* new steps, pending; the consumer calls executePlan on it and awaits it.
AdjustAnswer(f, k) ==
    LET adj == frames[f].adj
        old == plans[adj.plan].steps
        adjustedPlan ==
            [status |-> "pending", requiresAction |-> TRUE,
             steps |-> SubSeq(old, 1, Min(adj.currentStep, Len(old)))
                           \o adj.recovery \o PlanSteps(k)]
    IN
    /\ frames[f].exec = "adjusting"
    /\ SetAgent(ExecutePlan([Agent EXCEPT !.plans[NewPlan] = adjustedPlan,
                                          !.frames[f].exec = "awaitChild",
                                          !.frames[f].adj = NoAdjust],
                            NewFrame, NewPlan, f))
    /\ planOp' = Op("adjustAnswer", f)
    /\ UNCHANGED << goal, clientPlan, nPushed, nSubmitted, lastSubmitted, nAdjust, nFailed >>
    /\ UNCHANGED engineVars
    /\ UNCHANGED msgVars
    /\ UNCHANGED << retryVars, lifeVars, memory, otherCall, handlerVars, initVars >>

\* adjustPlan's generatePlanSteps rejects: adjustPlan and the consumer
\* rethrow.
AdjustFails(f) ==
    /\ frames[f].exec = "adjusting"
    /\ SetAgent(TaskEnds([Agent EXCEPT !.frames[f].adj = NoAdjust],
                         f, "exec", "failed", "llm"))
    /\ planOp' = Op("adjustFails", f)
    /\ UNCHANGED << goal, clientPlan, nPushed, nSubmitted, lastSubmitted, nAdjust, nFailed >>
    /\ UNCHANGED engineVars
    /\ UNCHANGED msgVars
    /\ UNCHANGED << retryVars, lifeVars, memory, otherCall, handlerVars, initVars >>

\* ------------------------------------------------------ handleInterrupt
\* The 'interrupt' event (or a system message naming it) arrives.
HandleInterrupt ==
    /\ currentPlan # NoPlan
    /\ plans' = [plans EXCEPT ![currentPlan].status = "failed"]
    /\ context' = NullContext
    /\ planOp' = Op("interrupt", NoId)
    /\ UNCHANGED << currentPlan, frames, client, goal, clientPlan,
                    nPushed, nSubmitted, lastSubmitted, nAdjust, nFailed >>
    /\ UNCHANGED engineVars
    /\ UNCHANGED msgVars
    /\ UNCHANGED << retryVars, lifeVars, memory, otherCall, handlerVars, initVars >>

NextPlan ==
    \/ \E g \in GoalInputs : CreatePlan(g)
    \/ \E k \in PlanStepSizes : CreatePlanAnswer(k)
    \/ CreatePlanFails
    \/ ClientExecutePlan
    \/ \E f \in FrameIds : \E k \in StreamChunkSizes : GenAnswer(f, k)
    \/ \E f \in FrameIds : GenFails(f)
    \/ \E f \in FrameIds : Tick(f)
    \/ \E f \in FrameIds : StepSucceeds(f)
    \/ \E f \in FrameIds : \E feedback \in FeedbackInputs : StepFails(f, feedback)
    \/ \E f \in FrameIds : \E k \in PlanStepSizes : AdjustAnswer(f, k)
    \/ \E f \in FrameIds : AdjustFails(f)

SpecPlan == Init /\ [][NextPlan]_vars

\* ------------------------------------------ executePlan under fairness
\* The language model answers or rejects a request of the producer of f
GatewayReturns(f) ==
    \/ \E k \in StreamChunkSizes : GenAnswer(f, k)
    \/ GenFails(f)

\* performAction settles for the step the consumer of f waits for.  The
\* error message only decides the recovery steps of the adjusted plan,
\* which executePlan never reads: one message stands for all.
ActionReturns(f) ==
    \/ StepSucceeds(f)
    \/ StepFails(f, << "action", "failed" >>)

\* The language model answers or rejects adjustPlan's request
AdjustReturns(f) ==
    \/ \E k \in PlanStepSizes : AdjustAnswer(f, k)
    \/ AdjustFails(f)

NextSettle ==
    \/ \E g \in GoalInputs : CreatePlan(g)
    \/ \E k \in PlanStepSizes : CreatePlanAnswer(k)
    \/ CreatePlanFails
    \/ ClientExecutePlan
    \/ \E f \in FrameIds : GatewayReturns(f)
    \/ \E f \in FrameIds : Tick(f)
    \/ \E f \in FrameIds : ActionReturns(f)
    \/ \E f \in FrameIds : AdjustReturns(f)

\* The event loop runs a timer that is due or a continuation whose promise
\* has settled, as long as there is one; requests and actions are assumed
\* to return.
FairPlan ==
    WF_vars(\E f \in FrameIds :
                GatewayReturns(f) \/ Tick(f) \/ ActionReturns(f) \/ AdjustReturns(f))

SpecPlanFair == Init /\ [][NextSettle]_vars /\ FairPlan

\* The same with 'interrupt' events arriving at any time
NextInterrupt ==
    \/ NextPlan
    \/ HandleInterrupt

SpecInterrupt == Init /\ [][NextInterrupt]_vars


\* ---------------------------------------------------- handleAgentMessage
\* A message of another agent (sender not 'system') arrives while there is
\* a current plan: adjustPlan(currentPlan, message).  With a context the
\* recovery steps are derived at once; the request for new steps that
\* follows changes nothing in the planner and the plan built from its
\* answer is dropped by handleAgentMessage.  Without a context adjustPlan
\* falls back to createPlan(plan.goal), which asks the language model.
AgentMessage(feedback) ==
    /\ currentPlan # NoPlan
    /\ IF context.exists
       THEN /\ adjustResults' = adjustResults \cup
                   { [feedback |-> feedback,
                      recovery |-> GenerateRecoverySteps(feedback)] }
            /\ UNCHANGED msgCall
       ELSE /\ msgCall.state = "idle"
            /\ FreePlans # {}
            /\ msgCall' = [state |-> "creating", feedback |-> feedback]
            /\ UNCHANGED adjustResults
    /\ planOp' = Op("agentMessage", NoId)
    /\ UNCHANGED << plans, currentPlan, context, frames, client, goal, clientPlan,
                    nPushed, nSubmitted, lastSubmitted, nAdjust, nFailed >>
    /\ UNCHANGED engineVars
    /\ UNCHANGED << retryVars, lifeVars, memory, otherCall, handlerVars, initVars >>

\* generatePlanSteps answers the createPlan of a message with k steps:
\* createPlan makes the new plan, whose steps are the answer's, the
\* current plan, installs a new context and returns the plan.
MessagePlanAnswer(k) ==
    LET plan == [status |-> "pending", requiresAction |-> TRUE, steps |-> PlanSteps(k)]
    IN
    /\ msgCall.state = "creating"
    /\ plans' = [plans EXCEPT ![NewPlan] = plan]
    /\ currentPlan' = NewPlan
    /\ context' = FreshContext(goal)
    /\ adjustResults' = adjustResults \cup
           { [feedback |-> msgCall.feedback,
              recovery |-> SelectSeq(plan.steps, LAMBDA s : s.origin = "recovery")] }
    /\ msgCall' = NoMessage
    /\ planOp' = Op("messagePlanAnswer", NoId)
    /\ UNCHANGED << frames, client, goal, clientPlan,
                    nPushed, nSubmitted, lastSubmitted, nAdjust, nFailed >>
    /\ UNCHANGED engineVars
    /\ UNCHANGED << retryVars, lifeVars, memory, otherCall, handlerVars, initVars >>

\* generatePlanSteps rejects: createPlan, adjustPlan and the handler throw
MessagePlanFails ==
    /\ msgCall.state = "creating"
    /\ msgCall' = NoMessage
    /\ planOp' = Op("messagePlanFails", NoId)
    /\ UNCHANGED << plans, currentPlan, context, frames, client, goal, clientPlan,
                    nPushed, nSubmitted, lastSubmitted, nAdjust, nFailed, adjustResults >>
    /\ UNCHANGED engineVars
    /\ UNCHANGED << retryVars, lifeVars, memory, otherCall, handlerVars, initVars >>

\* Messages arriving around the execution of a plan whose steps all succeed
NextMessage ==
    \/ \E g \in GoalInputs : CreatePlan(g)
    \/ \E k \in PlanStepSizes : CreatePlanAnswer(k)
    \/ CreatePlanFails
    \/ ClientExecutePlan
    \/ \E f \in FrameIds : \E k \in StreamChunkSizes : GenAnswer(f, k)
    \/ \E f \in FrameIds : GenFails(f)
    \/ \E f \in FrameIds : Tick(f)
    \/ \E f \in FrameIds : StepSucceeds(f)
    \/ \E feedback \in MessageInputs : AgentMessage(feedback)
    \/ \E k \in PlanStepSizes : MessagePlanAnswer(k)
    \/ MessagePlanFails

SpecMessage == Init /\ [][NextMessage]_vars


\* ------------------------------------------- overlapping executePlan calls
\* The client calls executePlan(plan) again while an earlier call is still
\* pending: the new invocation works on the same this.context, whose queue
\* it empties, and starts a producer and a consumer of its own.
ClientExecutePlanAgain ==
    /\ client = "executing"
    /\ Cardinality({ f \in FrameIds : frames[f].state # "free" }) < MaxExecuteCalls
    /\ SetAgent(ExecutePlan(Agent, NewFrame, clientPlan, NoFrame))
    /\ planOp' = Op("executePlanAgain", NewFrame)
    /\ UNCHANGED << goal, clientPlan, nPushed, nSubmitted, lastSubmitted, nAdjust, nFailed >>
    /\ UNCHANGED engineVars
    /\ UNCHANGED msgVars
    /\ UNCHANGED << retryVars, lifeVars, memory, otherCall, handlerVars, initVars >>

\* Overlapping calls on a plan whose steps all succeed
NextOverlap ==
    \/ \E g \in GoalInputs : CreatePlan(g)
    \/ \E k \in PlanStepSizes : CreatePlanAnswer(k)
    \/ CreatePlanFails
    \/ ClientExecutePlan
    \/ ClientExecutePlanAgain
    \/ \E f \in FrameIds : \E k \in StreamChunkSizes : GenAnswer(f, k)
    \/ \E f \in FrameIds : GenFails(f)
    \/ \E f \in FrameIds : Tick(f)
    \/ \E f \in FrameIds : StepSucceeds(f)

SpecOverlap == Init /\ [][NextOverlap]_vars


\* --------------------------------- a createPlan call of a second caller
\* While the client's executePlan is pending, another caller asks for a
\* plan for another goal g.  createPlan up to its first wait: a goal that
\* needs no action returns an empty completed plan; any other goal asks
\* the language model for the plan's steps.
OtherCreatePlan(g) ==
    /\ client = "executing"
    /\ otherCall.state = "idle"
    /\ g # goal
    /\ FreePlans # {}
    /\ IF ~DoesGoalRequireAction(ParseGoalRequirements(g))
       THEN /\ plans' = [plans EXCEPT ![NewPlan] =
                           [status |-> "completed", requiresAction |-> FALSE,
                            steps |-> << >>]]
            /\ otherCall' = [state |-> "created", goal |-> g]
       ELSE /\ otherCall' = [state |-> "creating", goal |-> g]
            /\ UNCHANGED plans
    /\ planOp' = Op("otherCreatePlan", NoId)
    /\ UNCHANGED << currentPlan, context, frames, client, goal, clientPlan,
                    nPushed, nSubmitted, lastSubmitted, nAdjust, nFailed >>
    /\ UNCHANGED engineVars
    /\ UNCHANGED msgVars
    /\ UNCHANGED << retryVars, lifeVars, memory, handlerVars, initVars >>

\* generatePlanSteps answers the second caller with k steps: its plan
\* becomes currentPlan and this.context is a new context for its goal.
OtherCreatePlanAnswer(k) ==
    /\ otherCall.state = "creating"
    /\ FreePlans # {}
    /\ plans' = [plans EXCEPT ![NewPlan] =
                    [status |-> "pending", requiresAction |-> TRUE,
                     steps |-> PlanSteps(k)]]
    /\ currentPlan' = NewPlan
    /\ context' = FreshContext(otherCall.goal)
    /\ otherCall' = [otherCall EXCEPT !.state = "created"]
    /\ planOp' = Op("otherCreatePlanAnswer", NoId)
    /\ UNCHANGED << frames, client, goal, clientPlan,
                    nPushed, nSubmitted, lastSubmitted, nAdjust, nFailed >>
    /\ UNCHANGED engineVars
    /\ UNCHANGED msgVars
    /\ UNCHANGED << retryVars, lifeVars, memory, handlerVars, initVars >>

\* generatePlanSteps rejects: the second caller's createPlan rethrows
OtherCreatePlanFails ==
    /\ otherCall.state = "creating"
    /\ otherCall' = [otherCall EXCEPT !.state = "createFailed"]
    /\ planOp' = Op("otherCreatePlanFails", NoId)
    /\ UNCHANGED << plans, currentPlan, context, frames, client, goal, clientPlan,
                    nPushed, nSubmitted, lastSubmitted, nAdjust, nFailed >>
    /\ UNCHANGED engineVars
    /\ UNCHANGED msgVars
    /\ UNCHANGED << retryVars, lifeVars, memory, handlerVars, initVars >>

\* A second caller's createPlan around the execution of a plan whose steps
\* all succeed
NextOtherGoal ==
    \/ \E g \in GoalInputs : CreatePlan(g)
    \/ \E k \in PlanStepSizes : CreatePlanAnswer(k)
    \/ CreatePlanFails
    \/ ClientExecutePlan
    \/ \E f \in FrameIds : \E k \in StreamChunkSizes : GenAnswer(f, k)
    \/ \E f \in FrameIds : GenFails(f)
    \/ \E f \in FrameIds : Tick(f)
    \/ \E f \in FrameIds : StepSucceeds(f)
    \/ \E g \in GoalInputs : OtherCreatePlan(g)
    \/ \E k \in PlanStepSizes : OtherCreatePlanAnswer(k)
    \/ OtherCreatePlanFails

SpecOtherGoal == Init /\ [][NextOtherGoal]_vars


\* ================================== planner, src/agents/planning/index.ts
\* The PlanningAgentImpl of index.ts has no producer and consumer: its
\* executePlan walks plan.steps in a for loop.  createPlan, adjustPlan's
\* slicing and handleInterrupt are as above, except that adjustPlan derives
\* no recovery steps and its adjusted plan has no requiresAction field.

\* The rest of executePlan once the loop is left: status, finally block,
\* settle towards the client.
LoopEnds(S, f, how, err) ==
    [S EXCEPT !.plans[S.frames[f].plan].status =
                  IF how = "threw" THEN "failed"
                  ELSE IF how = "completed" THEN "completed" ELSE @,
              !.context = NullContext,
              !.frames[f].state = IF how = "threw" THEN "threw" ELSE "returned",
              !.frames[f].exec = IF how = "threw" THEN "failed" ELSE "done",
              !.frames[f].err = err,
              !.frames[f].step = NoStep,
              !.frames[f].stepsDone =
                  IF S.context.exists THEN S.context.currentStep ELSE -1,
              !.client = IF how = "threw" THEN "threw" ELSE "returned"]

\* The head of the for loop at index i: past the last step or without a
\* context the loop is left and the plan is completed; else currentStep = i
\* and performAction(plan.steps[i]).
LoopHead(S, f, i) ==
    LET steps == S.plans[S.frames[f].plan].steps IN
    IF i >= Len(steps) \/ ~S.context.exists
    THEN LoopEnds(S, f, "completed", "none")
    ELSE [S EXCEPT !.context.currentStep = i,
                   !.frames[f].exec = "acting",
                   !.frames[f].step = steps[i + 1],
                   !.frames[f].nsub = i + 1]

\* The client calls executePlan on the plan createPlan gave it.
ClientExecutePlanLoop ==
    LET f == NewFrame
        S1 == [Agent EXCEPT !.frames[f] =
                   [FreeFrame EXCEPT !.plan = clientPlan, !.state = "running"],
                            !.client = "executing"]
    IN
    /\ client = "created"
    /\ IF ~plans[clientPlan].requiresAction
       THEN SetAgent([S1 EXCEPT !.frames[f].state = "returned", !.client = "returned"])
       ELSE SetAgent(LoopHead([S1 EXCEPT !.plans[clientPlan].status = "in_progress",
                                         !.currentPlan = clientPlan], f, 0))
    /\ planOp' = Op("executePlan", f)
    /\ UNCHANGED << goal, clientPlan, nPushed, nSubmitted, lastSubmitted, nAdjust, nFailed >>
    /\ UNCHANGED engineVars
    /\ UNCHANGED msgVars
    /\ UNCHANGED << retryVars, lifeVars, memory, otherCall, handlerVars, initVars >>

\* performAction fulfils: lastUpdate, next index.  Without a context the
\* assignment throws inside the try block, the catch block throws again on
\* retryCount, and the outer catch block fails the plan.
LoopStepSucceeds(f) ==
    /\ frames[f].exec = "acting"
    /\ IF ~context.exists
       THEN SetAgent(LoopEnds(Agent, f, "threw", "type"))
       ELSE SetAgent(LoopHead(Agent, f, frames[f].nsub))
    /\ planOp' = Op("stepSucceeds", f)
    /\ UNCHANGED << goal, clientPlan, nPushed, nSubmitted, lastSubmitted, nAdjust, nFailed >>
    /\ UNCHANGED engineVars
    /\ UNCHANGED msgVars
    /\ UNCHANGED << retryVars, lifeVars, memory, otherCall, handlerVars, initVars >>

\* performAction rejects: with retries left retryCount++ and
\* adjustPlan(plan, message) up to its generatePlanSteps; else the plan is
\* failed and the error rethrown.
LoopStepFails(f, feedback) ==
    /\ frames[f].exec = "acting"
    /\ IF ~context.exists
       THEN /\ SetAgent(LoopEnds(Agent, f, "threw", "type"))
            /\ UNCHANGED nAdjust
       ELSE IF context.retryCount < maxRetries
       THEN /\ SetAgent([Agent EXCEPT
                   !.context.retryCount = @ + 1,
                   !.frames[f].exec = "adjusting",
                   !.frames[f].step = NoStep,
                   !.frames[f].adj =
                       [plan |-> frames[f].plan,
                        currentStep |-> context.currentStep,
                        recovery |-> << >>]])
            /\ nAdjust' = nAdjust + 1
       ELSE /\ SetAgent(LoopEnds(Agent, f, "threw", "step"))
            /\ UNCHANGED nAdjust
    /\ nFailed' = nFailed + 1
    /\ planOp' = Op("stepFails", f)
    /\ UNCHANGED << goal, clientPlan, nPushed, nSubmitted, lastSubmitted >>
    /\ UNCHANGED engineVars
    /\ UNCHANGED msgVars
    /\ UNCHANGED << retryVars, lifeVars, memory, otherCall, handlerVars, initVars >>

LoopAdjustAnswerRuns(f, k) ==
    LET adj == frames[f].adj
        old == plans[adj.plan].steps
        adjustedPlan ==
            [status |-> "in_progress", requiresAction |-> TRUE,
             steps |-> SubSeq(old, 1, Min(adj.currentStep, Len(old))) \o PlanSteps(k)]
        p == NewPlan
    IN
    /\ frames[f].exec = "adjusting"
    /\ SetAgent(LoopHead([Agent EXCEPT !.plans[p] = adjustedPlan,
                                       !.currentPlan = p,
                                       !.frames[f].adj = NoAdjust,
                                       !.frames[f].plan = p],
                         f, 0))
    /\ planOp' = Op("adjustAnswer", f)
    /\ UNCHANGED << goal, clientPlan, nPushed, nSubmitted, lastSubmitted, nAdjust, nFailed >>
    /\ UNCHANGED engineVars
    /\ UNCHANGED msgVars
    /\ UNCHANGED << retryVars, lifeVars, memory, otherCall, handlerVars, initVars >>

\* generatePlanSteps answers adjustPlan with k steps.  The adjusted plan
\* carries no requiresAction, so executePlan(adjustedPlan) returns at once
\* and leaves it pending; the outer executePlan returns from inside its try
\* block: only the finally block runs, the outer plan keeps its status.
LoopAdjustAnswer(f, k) ==
    LET adj == frames[f].adj
        old == plans[adj.plan].steps
        adjustedPlan ==
            [status |-> "pending", requiresAction |-> FALSE,
             steps |-> SubSeq(old, 1, Min(adj.currentStep, Len(old))) \o PlanSteps(k)]
    IN
    /\ frames[f].exec = "adjusting"
    /\ SetAgent(LoopEnds([Agent EXCEPT !.plans[NewPlan] = adjustedPlan,
                                       !.frames[f].adj = NoAdjust],
                         f, "returned", "none"))
    /\ planOp' = Op("adjustAnswer", f)
    /\ UNCHANGED << goal, clientPlan, nPushed, nSubmitted, lastSubmitted, nAdjust, nFailed >>
    /\ UNCHANGED engineVars
    /\ UNCHANGED msgVars
    /\ UNCHANGED << retryVars, lifeVars, memory, otherCall, handlerVars, initVars >>

\* generatePlanSteps rejects: adjustPlan rethrows out of the catch block
LoopAdjustFails(f) ==
    /\ frames[f].exec = "adjusting"
    /\ SetAgent(LoopEnds([Agent EXCEPT !.frames[f].adj = NoAdjust], f, "threw", "llm"))
    /\ planOp' = Op("adjustFails", f)
    /\ UNCHANGED << goal, clientPlan, nPushed, nSubmitted, lastSubmitted, nAdjust, nFailed >>
    /\ UNCHANGED engineVars
    /\ UNCHANGED msgVars
    /\ UNCHANGED << retryVars, lifeVars, memory, otherCall, handlerVars, initVars >>

\* Sizes of the step lists generatePlanSteps answers with here: a plan
\* template (two steps) or the language model's list
LoopStepSizes == { 0, 2, chunkSize }

NextLoop ==
    \/ \E g \in GoalInputs : CreatePlan(g)
    \/ \E k \in LoopStepSizes : CreatePlanAnswer(k)
    \/ CreatePlanFails
    \/ ClientExecutePlanLoop
    \/ \E f \in FrameIds : LoopStepSucceeds(f)
    \/ \E f \in FrameIds : \E feedback \in FeedbackInputs : LoopStepFails(f, feedback)
    \/ \E f \in FrameIds : \E k \in LoopStepSizes : LoopAdjustAnswer(f, k)
    \/ \E f \in FrameIds : LoopAdjustFails(f)
    \/ HandleInterrupt

SpecLoop == Init /\ [][NextLoop]_vars

\* ------------------------------------------------ index.ts: the plan cache
\* In index.ts initializeAgent takes the memory agent from the registry, so
\* loadCachedPlan and cachePlan are in use; isPlanValid answers true.
\* createPlan(g) by a client that has no call pending.  A remembered plan
\* is returned as it is: currentPlan and context are not touched.
CachedCreatePlan(g) ==
    /\ client \in { "idle", "returned", "threw" }
    /\ FreeFrames # {}
    /\ Cardinality(FreePlans) >= 2
    /\ goal' = g
    /\ IF memory[g] # NoPlan
       THEN /\ clientPlan' = memory[g]
            /\ client' = "created"
            /\ UNCHANGED plans
       ELSE IF ~DoesGoalRequireAction(ParseGoalRequirements(g))
       THEN /\ plans' = [plans EXCEPT ![NewPlan] =
                           [status |-> "completed", requiresAction |-> FALSE,
                            steps |-> << >>]]
            /\ clientPlan' = NewPlan
            /\ client' = "created"
       ELSE /\ client' = "creating"
            /\ UNCHANGED << plans, clientPlan >>
    /\ planOp' = Op("createPlan", NoId)
    /\ UNCHANGED << currentPlan, context, frames, nPushed, nSubmitted, lastSubmitted, nAdjust, nFailed >>
    /\ UNCHANGED engineVars
    /\ UNCHANGED msgVars
    /\ UNCHANGED << retryVars, lifeVars, memory, otherCall, handlerVars, initVars >>

\* generatePlanSteps answers with k steps: the new plan is remembered under
\* its goal, becomes currentPlan and gets a fresh context.
CachedCreatePlanAnswer(k) ==
    /\ client = "creating"
    /\ plans' = [plans EXCEPT ![NewPlan] =
                    [status |-> "pending", requiresAction |-> TRUE,
                     steps |-> PlanSteps(k)]]
    /\ memory' = [memory EXCEPT ![goal] = NewPlan]
    /\ currentPlan' = NewPlan
    /\ context' = FreshContext(goal)
    /\ clientPlan' = NewPlan
    /\ client' = "created"
    /\ planOp' = Op("createPlanAnswer", NoId)
    /\ UNCHANGED << frames, goal, nPushed, nSubmitted, lastSubmitted, nAdjust, nFailed >>
    /\ UNCHANGED engineVars
    /\ UNCHANGED msgVars
    /\ UNCHANGED << retryVars, lifeVars, otherCall, handlerVars, initVars >>

\* A client that creates and executes plans one after the other
NextCache ==
    \/ \E g \in GoalInputs : CachedCreatePlan(g)
    \/ \E k \in LoopStepSizes : CachedCreatePlanAnswer(k)
    \/ CreatePlanFails
    \/ ClientExecutePlanLoop
    \/ \E f \in FrameIds : LoopStepSucceeds(f)
    \/ \E f \in FrameIds : \E feedback \in FeedbackInputs : LoopStepFails(f, feedback)
    \/ \E f \in FrameIds : \E k \in LoopStepSizes : LoopAdjustAnswer(f, k)
    \/ \E f \in FrameIds : LoopAdjustFails(f)

SpecCache == Init /\ [][NextCache]_vars

\* ======================================== retry (createRetryHandler)
\* BaseLLMHandler.createRetryHandler wraps an operation with toRetriable:
\* the operation is attempted up to retryLimit times with a sleep between
\* attempts, the onError hook is called before each sleep, and the error of
\* the last attempt is rethrown.  The handler of handler.ts passes a hook,
\* the one of gateway.ts passes none; both are run here on one operation,
\* whose outcome at each attempt is fixed when the run starts.

\* The value or error of the operation's n-th attempt
Outcome(kind, n) == [kind |-> kind, attempt |-> n]

\* The onError hook of handler.ts: an LLMError whose message includes
\* 'invalid request' is thrown again, any other error is logged.
OnErrorLogsOnly(err) == "logged"

OnError(err) == IF err.kind = "invalid" THEN "thrown" ELSE "logged"

HasHook(i) == i = "handler"

\* Both handlers are called on an operation with the given outcomes: first
\* attempt.
RetryStart(run) ==
    /\ outcomes = << >>
    /\ outcomes' = run
    /\ rt' = [i \in RetryIds |-> [IdleRetry EXCEPT !.pc = "calling", !.attempts = 1]]
    /\ UNCHANGED << engineVars, planVars >>

\* The attempt under way fulfils: its value is returned.
OperationReturns(i) ==
    /\ rt[i].pc = "calling"
    /\ outcomes[rt[i].attempts] = "ok"
    /\ rt' = [rt EXCEPT ![i].pc = "returned",
                        ![i].result = Outcome("ok", rt[i].attempts)]
    /\ UNCHANGED << outcomes, engineVars, planVars >>

OperationThrowsOnceMore(i) ==
    LET err == Outcome(outcomes[rt[i].attempts], rt[i].attempts) IN
    /\ rt[i].pc = "calling"
    /\ outcomes[rt[i].attempts] # "ok"
    /\ rt' = IF rt[i].attempts > retryLimit
             THEN [rt EXCEPT ![i].pc = "threw", ![i].result = err]
             ELSE IF HasHook(i) /\ OnError(err) = "thrown"
             THEN [rt EXCEPT ![i].pc = "threw", ![i].result = err]
             ELSE [rt EXCEPT ![i].pc = "sleeping",
                             ![i].hookCalls = IF HasHook(i) THEN @ + 1 ELSE @]
    /\ UNCHANGED << outcomes, engineVars, planVars >>

\* The attempt under way rejects.  After the last attempt the error is
\* rethrown; otherwise the hook, if any, is called (an error it throws
\* leaves the handler) and the sleep starts.
OperationThrows(i) ==
    LET err == Outcome(outcomes[rt[i].attempts], rt[i].attempts) IN
    /\ rt[i].pc = "calling"
    /\ outcomes[rt[i].attempts] # "ok"
    /\ rt' = IF rt[i].attempts >= retryLimit
             THEN [rt EXCEPT ![i].pc = "threw", ![i].result = err]
             ELSE IF HasHook(i) /\ OnError(err) = "thrown"
             THEN [rt EXCEPT ![i].pc = "threw", ![i].result = err]
             ELSE [rt EXCEPT ![i].pc = "sleeping",
                             ![i].hookCalls = IF HasHook(i) THEN @ + 1 ELSE @]
    /\ UNCHANGED << outcomes, engineVars, planVars >>

\* The sleep is over: next attempt.
RetrySleepEnds(i) ==
    /\ rt[i].pc = "sleeping"
    /\ rt' = [rt EXCEPT ![i].pc = "calling", ![i].attempts = @ + 1]
    /\ UNCHANGED << outcomes, engineVars, planVars >>

NextRetry ==
    \/ \E run \in OperationRuns : RetryStart(run)
    \/ \E i \in RetryIds : OperationReturns(i)
    \/ \E i \in RetryIds : OperationThrows(i)
    \/ \E i \in RetryIds : RetrySleepEnds(i)

SpecRetry == Init /\ [][NextRetry]_vars

\* ------------------------------------------- AbstractAgent: init, destroy
\* init() up to `await this.initializeAgent()`: nothing when the agent is
\* initialized already; otherwise initializeAgent creates the action agent
\* and waits for its init().
AgentInit ==
    /\ lifeCall = "idle"
    /\ IF initialized
       THEN UNCHANGED << actionAgent, lifeCall >>
       ELSE /\ actionAgent' = TRUE
            /\ lifeCall' = "init"
    /\ planOp' = Op("init", NoId)
    /\ UNCHANGED << plans, currentPlan, context, frames, client, goal, clientPlan,
                    nPushed, nSubmitted, lastSubmitted, nAdjust, nFailed >>
    /\ UNCHANGED << initialized, clientAdjust >>
    /\ UNCHANGED engineVars
    /\ UNCHANGED msgVars
    /\ UNCHANGED << retryVars, memory, otherCall, handlerVars, initVars >>

\* initializeAgent has registered the 'message' and 'interrupt' listeners
\* and returned: this.initialized = true
AgentInitEnds ==
    /\ lifeCall = "init"
    /\ initialized' = TRUE
    /\ lifeCall' = "idle"
    /\ planOp' = Op("initEnds", NoId)
    /\ UNCHANGED << plans, currentPlan, context, frames, client, goal, clientPlan,
                    nPushed, nSubmitted, lastSubmitted, nAdjust, nFailed >>
    /\ UNCHANGED << actionAgent, clientAdjust >>
    /\ UNCHANGED engineVars
    /\ UNCHANGED msgVars
    /\ listeners' = listeners + 1
    /\ UNCHANGED << retryVars, memory, otherCall, handlerVars, otherInits >>

\* destroy() up to `await this.destroyAgent()`: nothing when the agent is
\* not initialized; otherwise destroyAgent clears currentPlan, context and
\* actionAgent and removes all listeners.
AgentDestroy ==
    /\ lifeCall = "idle"
    /\ IF ~initialized
       THEN UNCHANGED << currentPlan, context, actionAgent, lifeCall >>
       ELSE /\ currentPlan' = NoPlan
            /\ context' = NullContext
            /\ actionAgent' = FALSE
            /\ lifeCall' = "destroy"
    /\ planOp' = Op("destroy", NoId)
    /\ UNCHANGED << plans, frames, client, goal, clientPlan,
                    nPushed, nSubmitted, lastSubmitted, nAdjust, nFailed >>
    /\ UNCHANGED << initialized, clientAdjust >>
    /\ UNCHANGED engineVars
    /\ UNCHANGED msgVars
    /\ listeners' = IF initialized THEN 0 ELSE listeners
    /\ UNCHANGED << retryVars, memory, otherCall, handlerVars, otherInits >>

\* destroyAgent has returned: this.initialized = false
AgentDestroyEnds ==
    /\ lifeCall = "destroy"
    /\ initialized' = FALSE
    /\ lifeCall' = "idle"
    /\ planOp' = Op("destroyEnds", NoId)
    /\ UNCHANGED << plans, currentPlan, context, frames, client, goal, clientPlan,
                    nPushed, nSubmitted, lastSubmitted, nAdjust, nFailed >>
    /\ UNCHANGED << actionAgent, clientAdjust >>
    /\ UNCHANGED engineVars
    /\ UNCHANGED msgVars
    /\ UNCHANGED << retryVars, memory, otherCall, handlerVars, initVars >>

\* ------------------------- the public methods and their first statements
\* A public method throws before it has touched anything; op names the
\* method and the error.
Throws(op) ==
    /\ planOp' = Op(op, NoId)
    /\ UNCHANGED << plans, currentPlan, context, frames, client, goal, clientPlan,
                    nPushed, nSubmitted, lastSubmitted, nAdjust, nFailed >>
    /\ UNCHANGED engineVars
    /\ UNCHANGED msgVars
    /\ UNCHANGED << retryVars, lifeVars, memory, otherCall, handlerVars, initVars >>

\* createPlan(g) as a client may call it at any time
PublicCreatePlan(g) ==
    IF ~initialized
    THEN client = "idle" /\ Throws("createPlan: not initialized")
    ELSE CreatePlan(g)

PublicExecutePlanUnchecked ==
    /\ client = "created"
    /\ IF plans[clientPlan].requiresAction /\ ~actionAgent
       THEN Throws("executePlan: no action agent")
       ELSE ClientExecutePlan

\* executePlan(plan) as a client may call it at any time, with the plan
\* createPlan or adjustPlan returned
PublicExecutePlan ==
    /\ client = "created"
    /\ IF ~initialized
       THEN Throws("executePlan: not initialized")
       ELSE IF plans[clientPlan].requiresAction /\ ~actionAgent
       THEN Throws("executePlan: no action agent")
       ELSE ClientExecutePlan

\* adjustPlan(plan, feedback) called by the client on the plan it holds:
\* with a context it asks the language model for new steps, without one it
\* returns createPlan(plan.goal).
PublicAdjustPlan(feedback) ==
    /\ client = "created"
    /\ IF ~initialized
       THEN Throws("adjustPlan: not initialized")
       ELSE /\ FreePlans # {}
            /\ IF context.exists
               THEN /\ client' = "adjusting"
                    /\ clientAdjust' =
                           [plan |-> clientPlan,
                            currentStep |-> context.currentStep,
                            recovery |-> GenerateRecoverySteps(feedback)]
                    /\ UNCHANGED << plans, clientPlan >>
               ELSE IF ~DoesGoalRequireAction(ParseGoalRequirements(goal))
               THEN /\ plans' = [plans EXCEPT ![NewPlan] =
                                   [status |-> "completed", requiresAction |-> FALSE,
                                    steps |-> << >>]]
                    /\ clientPlan' = NewPlan
                    /\ UNCHANGED << client, clientAdjust >>
               ELSE /\ client' = "creating"
                    /\ UNCHANGED << plans, clientPlan, clientAdjust >>
            /\ planOp' = Op("adjustPlan", NoId)
            /\ UNCHANGED << currentPlan, context, frames, goal,
                            nPushed, nSubmitted, lastSubmitted, nAdjust, nFailed >>
            /\ UNCHANGED << initialized, actionAgent, lifeCall >>
            /\ UNCHANGED engineVars
            /\ UNCHANGED msgVars
            /\ UNCHANGED << retryVars, memory, otherCall, handlerVars, initVars >>

\* generatePlanSteps answers the client's adjustPlan with k steps: the
\* adjusted plan is a new pending plan; currentPlan and context stay.
PublicAdjustAnswer(k) ==
    LET old == plans[clientAdjust.plan].steps IN
    /\ client = "adjusting"
    /\ plans' = [plans EXCEPT ![NewPlan] =
                    [status |-> "pending", requiresAction |-> TRUE,
                     steps |-> SubSeq(old, 1, Min(clientAdjust.currentStep, Len(old)))
                                   \o clientAdjust.recovery \o PlanSteps(k)]]
    /\ clientPlan' = NewPlan
    /\ client' = "created"
    /\ clientAdjust' = NoAdjust
    /\ planOp' = Op("adjustPlanAnswer", NoId)
    /\ UNCHANGED << currentPlan, context, frames, goal,
                    nPushed, nSubmitted, lastSubmitted, nAdjust, nFailed >>
    /\ UNCHANGED << initialized, actionAgent, lifeCall >>
    /\ UNCHANGED engineVars
    /\ UNCHANGED msgVars
    /\ UNCHANGED << retryVars, memory, otherCall, handlerVars, initVars >>

\* generatePlanSteps rejects: adjustPlan logs and rethrows, the client
\* keeps the plan it had.
PublicAdjustFails ==
    /\ client = "adjusting"
    /\ client' = "created"
    /\ clientAdjust' = NoAdjust
    /\ planOp' = Op("adjustPlanFails", NoId)
    /\ UNCHANGED << plans, currentPlan, context, frames, goal, clientPlan,
                    nPushed, nSubmitted, lastSubmitted, nAdjust, nFailed >>
    /\ UNCHANGED << initialized, actionAgent, lifeCall >>
    /\ UNCHANGED engineVars
    /\ UNCHANGED msgVars
    /\ UNCHANGED << retryVars, memory, otherCall, handlerVars, initVars >>

\* A client that creates, adjusts and executes a plan while the agent is
\* initialized and destroyed; every step succeeds.
NextLife ==
    \/ AgentInit
    \/ AgentInitEnds
    \/ AgentDestroy
    \/ AgentDestroyEnds
    \/ \E g \in GoalInputs : PublicCreatePlan(g)
    \/ \E k \in PlanStepSizes : CreatePlanAnswer(k)
    \/ CreatePlanFails
    \/ PublicExecutePlan
    \/ \E feedback \in FeedbackInputs : PublicAdjustPlan(feedback)
    \/ \E k \in PlanStepSizes : PublicAdjustAnswer(k)
    \/ PublicAdjustFails
    \/ \E f \in FrameIds : \E k \in StreamChunkSizes : GenAnswer(f, k)
    \/ \E f \in FrameIds : GenFails(f)
    \/ \E f \in FrameIds : Tick(f)
    \/ \E f \in FrameIds : StepSucceeds(f)

SpecLife == InitConstructed /\ [][NextLife]_vars

\* ------------------------------------------------ overlapping init() calls
\* init() calls that may overlap at one time besides the first
MaxOtherInits == 1

\* init() is called while an earlier init() call waits in initializeAgent:
\* this.initialized is still false, so the call runs initializeAgent as
\* well, creates another action agent and waits for its init().  Once an
\* earlier call has set this.initialized the call returns at once.
AgentInitAgain ==
    /\ lifeCall = "init" \/ otherInits > 0
    /\ IF initialized
       THEN UNCHANGED << actionAgent, otherInits >>
       ELSE /\ otherInits < MaxOtherInits
            /\ actionAgent' = TRUE
            /\ otherInits' = otherInits + 1
    /\ planOp' = Op("initAgain", NoId)
    /\ UNCHANGED << plans, currentPlan, context, frames, client, goal, clientPlan,
                    nPushed, nSubmitted, lastSubmitted, nAdjust, nFailed >>
    /\ UNCHANGED << initialized, lifeCall, clientAdjust, listeners >>
    /\ UNCHANGED engineVars
    /\ UNCHANGED msgVars
    /\ UNCHANGED << retryVars, memory, otherCall, handlerVars >>

\* initializeAgent of an overlapping call has registered its listeners and
\* returned: this.initialized = true
AgentInitAgainEnds ==
    /\ otherInits > 0
    /\ otherInits' = otherInits - 1
    /\ listeners' = listeners + 1
    /\ initialized' = TRUE
    /\ planOp' = Op("initAgainEnds", NoId)
    /\ UNCHANGED << plans, currentPlan, context, frames, client, goal, clientPlan,
                    nPushed, nSubmitted, lastSubmitted, nAdjust, nFailed >>
    /\ UNCHANGED << actionAgent, lifeCall, clientAdjust >>
    /\ UNCHANGED engineVars
    /\ UNCHANGED msgVars
    /\ UNCHANGED << retryVars, memory, otherCall, handlerVars >>

\* The life cycle with overlapping init() calls
NextInit ==
    \/ NextLife
    \/ AgentInitAgain
    \/ AgentInitAgainEnds

SpecInit == InitConstructed /\ [][NextInit]_vars

\* ======================== PlanHandler, src/agents/planning/adapter.ts
\* The PlanHandler keeps a PlanContext for every goal in its ContextManager
\* (planning/utils: contexts is a Map from goal to context).

\* ContextManager's maxRetries (the adapter passes no other value)
contextMaxRetries == 3

\* Pending adjustPlan calls of the PlanHandler at one time
MaxHandlerCalls == 2

\* Sizes of the step lists the plan generator answers with
HandlerStepSizes == { 0, 2 }

\* ContextManager.createContext
CreateContext == [exists |-> TRUE, retryCount |-> 0, currentStep |-> 0, nPending |-> 0]

\* ContextManager.getOrCreate(goal): the context in the map, or a new one
GetOrCreate(g) ==
    IF handlerContexts[g].exists THEN handlerContexts[g] ELSE CreateContext

\* ContextManager.canRetry
CanRetryInclusive(ctx) == ctx.retryCount <= contextMaxRetries

CanRetry(ctx) == ctx.retryCount < contextMaxRetries

HandlerPending ==
    LET RECURSIVE Sum(_)
        Sum(G) == IF G = {} THEN 0
                  ELSE LET g == CHOOSE x \in G : TRUE
                       IN handlerCalls[g].live + handlerCalls[g].detached + Sum(G \ { g })
    IN Sum(GoalInputs)

HandlerFrame ==
    /\ UNCHANGED << plans, currentPlan, context, frames, client, goal, clientPlan,
                    nPushed, nSubmitted, lastSubmitted, nAdjust, nFailed >>
    /\ UNCHANGED engineVars
    /\ UNCHANGED msgVars
    /\ UNCHANGED << retryVars, lifeVars, memory, otherCall, initVars >>

\* adjustPlan(plan, feedback, sender) for a plan of goal g, up to its wait
\* for the plan generator: getOrCreate, then either the error 'Maximum
\* retry attempts reached', or incrementRetry and the generator's request.
HandlerAdjustPlan(g) ==
    LET ctx == GetOrCreate(g) IN
    /\ IF ~CanRetry(ctx)
       THEN /\ handlerContexts' = [handlerContexts EXCEPT ![g] = ctx]
            /\ UNCHANGED handlerCalls
            /\ planOp' = Op("handlerAdjustThrows", NoId)
       ELSE /\ HandlerPending < MaxHandlerCalls
            /\ handlerContexts' =
                   [handlerContexts EXCEPT ![g] = [ctx EXCEPT !.retryCount = @ + 1]]
            /\ handlerCalls' = [handlerCalls EXCEPT ![g].live = @ + 1]
            /\ planOp' = Op("handlerAdjust", NoId)
    /\ HandlerFrame

\* The plan generator answers a pending call for g with k steps:
\* updateContext on the context the call holds (which is the one in the map
\* unless the map was cleared meanwhile), and the adjusted plan is returned.
HandlerAdjustAnswer(g, k, which) ==
    /\ handlerCalls[g][which] > 0
    /\ handlerCalls' = [handlerCalls EXCEPT ![g][which] = @ - 1]
    /\ IF which = "live"
       THEN handlerContexts' =
                [handlerContexts EXCEPT ![g].currentStep = 0, ![g].nPending = k]
       ELSE UNCHANGED handlerContexts
    /\ planOp' = Op("handlerAdjustAnswer", NoId)
    /\ HandlerFrame

\* The plan generator rejects: adjustPlan logs and rethrows
HandlerAdjustFails(g, which) ==
    /\ handlerCalls[g][which] > 0
    /\ handlerCalls' = [handlerCalls EXCEPT ![g][which] = @ - 1]
    /\ UNCHANGED handlerContexts
    /\ planOp' = Op("handlerAdjustFails", NoId)
    /\ HandlerFrame

\* destroyAgent of the adapter: contextManager.clear().  Pending calls keep
\* the context object they hold.
HandlerClear ==
    /\ \E g \in GoalInputs : handlerContexts[g].exists
    /\ handlerContexts' = [g \in GoalInputs |-> NoHandlerContext]
    /\ handlerCalls' = [g \in GoalInputs |->
                           [live |-> 0,
                            detached |-> handlerCalls[g].detached + handlerCalls[g].live]]
    /\ planOp' = Op("handlerClear", NoId)
    /\ HandlerFrame

NextHandler ==
    \/ \E g \in GoalInputs : HandlerAdjustPlan(g)
    \/ \E g \in GoalInputs : \E k \in HandlerStepSizes : \E which \in { "live", "detached" } :
           HandlerAdjustAnswer(g, k, which)
    \/ \E g \in GoalInputs : \E which \in { "live", "detached" } : HandlerAdjustFails(g, which)
    \/ HandlerClear

SpecHandler == Init /\ [][NextHandler]_vars

\* ================================================================ claims
Running == { a \in CallIds : body[a] = "running" }
Invoked == Range(startOrder)
Pos(seq, x) == CHOOSE i \in 1..Len(seq) : seq[i] = x
Settled(c) == pc[c] = "resolved"

\* C1: at most one action body is in execution at any instant, for every
\* interleaving of runAction/resumeAction calls (single-flight).
C1_SingleFlight == Cardinality(Running) <= 1

\* C2: with no body having thrown, no timer fired and no client stop(), a
\* runAction call made while the engine was busy does not resolve before
\* its own action body has been invoked and has run to completion.
C2_ResolvesAfterOwnBody ==
    ( /\ ~clientStopped
      /\ \A a \in CallIds : body[a] # "threw" /\ timer[a] # "fired" )
    => \A c \in CallIds :
          (busy[c] /\ act[c].hasFn /\ Settled(c)) => body[c] = "returned"

\* C3: bodies are invoked in submission order, and an earlier-submitted
\* action whose body is invoked has finished before a later-submitted
\* action's body is invoked.
C3_FifoExecution ==
    \A a, b \in Invoked :
        a < b => /\ Pos(startOrder, a) < Pos(startOrder, b)
                 /\ ~(body[a] = "running" /\ body[b] = "running")

\* C4: the promises of runAction calls submitted while the engine was busy
\* resolve in the order in which the calls were submitted.
C4_ResolveInSubmissionOrder ==
    \A i, j \in 1..Len(resolveOrder) :
        (i < j /\ busy[resolveOrder[i]] /\ busy[resolveOrder[j]])
            => resolveOrder[i] < resolveOrder[j]

\* C5: a call resolves with success=true exactly when its own action body
\* was invoked and returned normally, and with {success:false,
\* message:"failed"} when its own body threw.
C5_ResultMatchesOwnBody ==
    \A c \in CallIds :
        Settled(c) => /\ res[c].success <=> body[c] = "returned"
                      /\ body[c] = "threw" => res[c] = ResultFailed

C7_StopIsCooperative ==
    [][ /\ lastOp'.op = "stop" =>
            /\ interruptEmitted' = TRUE
            /\ actionQueue' = << >>
            /\ UNCHANGED << stateVars, body, timer, pc, ready >>
        /\ (executing /\ ~executing') =>
            /\ lastOp'.op \in {"execSuccess", "execCatch"}
            /\ \/ body[lastOp'.id] \in {"returned", "threw"}
               \/ ~act[lastOp'.id].hasFn ]_vars

C7_Witness ==
    /\ lastOp.op = "stop"
    /\ executing
    /\ Running # {}
    /\ actionQueue = << >>
    /\ \E c \in CallIds : pc[c] = "polling"

\* C8: right after the failure of an action body is handled, and right
\* after cancelResume(), the resume slot is empty; cancelResume() invokes
\* no body.
C8_ResumeSlotCleared ==
    [][ /\ lastOp'.op \in {"execCatch", "cancelResume"} => resumeSlot' = EmptyResume
        /\ lastOp'.op = "cancelResume" => UNCHANGED << body, startOrder, pc, ready >> ]_vars

C8_Witness ==
    /\ lastOp.op = "cancelResume"
    /\ \E a \in CallIds : act[a].resume /\ body[a] = "threw"
    /\ \E b \in CallIds : act[b].resume /\ body[b] = "running"

\* C9: a resume request that supplies no new function reports
\* {success:false, message:null} and invokes no action body.
C9_ResumeWithoutFnIsNoop ==
    \A c \in CallIds :
        (act[c].resume /\ ~act[c].hasFn /\ Settled(c))
            => res[c] = ResultNoop /\ body[c] = "notStarted"

\* C10: when a deadline timer fires, timedout becomes true, one timeout
\* notification is emitted and stop() is called; each timer calls stop()
\* exactly once if it fired and never otherwise, whatever the body does
\* afterwards.
C10_TimerFiresOnce ==
    /\ [][ lastOp'.op = "timerFire" =>
             /\ timedout'
             /\ timeoutEmitted' = TRUE
             /\ interruptEmitted' = TRUE
             /\ actionQueue' = << >>
             /\ timerStops'[lastOp'.id] = 1 ]_vars
    /\ [](\A a \in CallIds :
             timerStops[a] = IF timer[a] = "fired" THEN 1 ELSE 0)

C10_Witness ==
    /\ \E a \in CallIds : timer[a] = "fired" /\ body[a] = "returned" /\ Settled(a)
    /\ \E b \in CallIds : timer[b] = "fired" /\ body[b] = "threw" /\ Settled(b)

C12_StateResetOnTerminal ==
    [][ lastOp'.op \in {"execSuccess", "execCatch"} =>
          /\ executing' = FALSE
          /\ currentActionLabel' = NoId
          /\ currentActionFn' = NoId
          /\ timedout' = FALSE ]_vars

\* C13: the retryCount of the PlanContext never exceeds maxRetries and no
\* step of the planner lowers it while the context lives; no more than
\* maxRetries adjustments are made for one context.
C13_RetryCountBounded ==
    /\ [](context.exists => context.retryCount <= maxRetries)
    /\ [](nAdjust <= maxRetries)
    /\ [][ (context.exists /\ context'.exists)
              => context'.retryCount >= context.retryCount ]_vars

\* The consumer of the last retry at work, the ceiling reached
C13_Witness ==
    /\ context.exists
    /\ context.retryCount = maxRetries
    /\ \E f \in FrameIds : frames[f].exec = "acting" /\ frames[f].parent # NoFrame
    /\ Cardinality({ f \in FrameIds : frames[f].exec = "awaitChild" }) = maxRetries

\* C14: when the client's executePlan has settled, every step generator
\* that was started has been answered with steps, steps were submitted,
\* every one of them failed and no language-model request failed, then
\* exactly maxRetries adjustments were made, the call threw the step error
\* and the plan is failed.
LlmFailed ==
    \/ client = "createFailed"
    \/ \E f \in FrameIds : "llm" \in { frames[f].errs.gen, frames[f].errs.exec }

C14_RetriesThenFails ==
    ( /\ client \in { "returned", "threw" }
      /\ nSubmitted > 0
      /\ nFailed = nSubmitted
      /\ \A f \in FrameIds : frames[f].gen # "idle" => frames[f].chunks > 0
      /\ ~LlmFailed )
    => ( /\ nAdjust = maxRetries
         /\ client = "threw"
         /\ frames[1].err = "step"
         /\ plans[clientPlan].status = "failed" )

\* C15: once the status of a Plan object is completed or failed, no step
\* of the planner (executePlan, adjustPlan, interrupt handling) changes it.
C15_TerminalStatusIsFinal ==
    [][ \A p \in PlanIds :
          plans[p].status \in { "completed", "failed" }
              => plans'[p].status = plans[p].status ]_vars

\* C16: createPlan of a goal that needs no action returns an empty,
\* completed plan without requiresAction and leaves currentPlan and the
\* context alone; executePlan on such a plan returns at once: it starts no
\* producer or consumer, submits nothing and changes no plan, currentPlan
\* or context.
NoActionPlan == [status |-> "completed", requiresAction |-> FALSE, steps |-> << >>]

C16_NoActionPlanIsInert ==
    /\ [][ ( /\ planOp'.op = "createPlan"
             /\ ~DoesGoalRequireAction(ParseGoalRequirements(goal')) )
           => /\ clientPlan' # NoPlan
              /\ plans'[clientPlan'] = NoActionPlan
              /\ client' = "created"
              /\ UNCHANGED << currentPlan, context, nSubmitted >> ]_vars
    /\ [][ (planOp'.op = "executePlan" /\ ~plans[clientPlan].requiresAction)
           => /\ client' = "returned"
              /\ frames'[planOp'.id].gen = "idle"
              /\ frames'[planOp'.id].exec = "idle"
              /\ UNCHANGED << plans, currentPlan, context, nSubmitted >> ]_vars
    /\ [](~DoesGoalRequireAction(ParseGoalRequirements(goal)) => nSubmitted = 0)

C16_Witness ==
    /\ goal = << "hello" >>
    /\ planOp.op = "executePlan"
    /\ client = "returned"
    /\ plans[clientPlan] = NoActionPlan
    /\ currentPlan = NoPlan

\* C17: steps are handed to performAction in the order they were pushed,
\* none twice; every success advances currentStep by one; and when the
\* client's executePlan has returned with no step and no language-model
\* request failed, every pushed step was submitted, the plan is completed
\* and currentStep stood at the number of steps executed when the context
\* was cleared.
C17_AllStepsOnceInOrder ==
    /\ [][ nSubmitted' # nSubmitted =>
             /\ nSubmitted' = nSubmitted + 1
             /\ lastSubmitted' > lastSubmitted
             /\ lastSubmitted' <= nPushed ]_vars
    /\ [][ (planOp'.op = "stepSucceeds" /\ context.exists /\ context'.exists)
             => context'.currentStep = context.currentStep + 1 ]_vars
    /\ []( (client = "returned" /\ nFailed = 0 /\ ~LlmFailed /\ nPushed > 0)
             => /\ nSubmitted = nPushed
                /\ lastSubmitted = nPushed
                /\ plans[clientPlan].status = "completed"
                /\ frames[1].gen = "done"
                /\ frames[1].stepsDone = nSubmitted )

\* The two-step plan: both steps succeeded
C17_Witness ==
    /\ client = "returned"
    /\ nFailed = 0
    /\ nPushed = 2
    /\ nSubmitted = 2
    /\ frames[1].stepsDone = 2
    /\ plans[clientPlan].status = "completed"

\* C18: the first step a retry hands to performAction is the first recovery
\* step of the adjusted plan it executes, whenever the failure feedback
\* gave that plan recovery steps.
RecoveryOf(p) == SelectSeq(plans[p].steps, LAMBDA s : s.origin = "recovery")

C18_RecoveryStepsRunFirst ==
    \A f \in FrameIds :
        (/\ frames[f].state = "running"
         /\ frames[f].exec = "acting"
         /\ frames[f].nsub = 1
         /\ RecoveryOf(frames[f].plan) # << >>)
            => frames[f].step = Head(RecoveryOf(frames[f].plan))

\* C19: executePlan throws to its caller only when a step failed with the
\* retry ceiling reached or a language-model request failed; a retry whose
\* steps all succeed makes the call return.  Only runs in which every
\* executePlan invocation submitted a step are looked at.
C19_ThrowsOnlyAtCeiling ==
    ( /\ client = "threw"
      /\ \A f \in FrameIds : frames[f].state # "free" => frames[f].nsub > 0 ) =>
        \/ LlmFailed
        \/ /\ nAdjust = maxRetries
           /\ nFailed = maxRetries + 1
           /\ frames[1].err = "step"

\* C20: adjustPlan derives the same recovery steps, in the same order,
\* whenever it is given the same feedback, whatever the planner's state at
\* the time of the call.
C20_SameFeedbackSameRecovery ==
    \A a \in adjustResults : \A b \in adjustResults :
        a.feedback = b.feedback => a.recovery = b.recovery

\* C21: pendingSteps has one producer at a time: steps are appended only by
\* the producer task of the executePlan invocation that last initialised
\* the queue (the most recent invocation), and producer tasks of two
\* invocations are never both waiting to append.
LatestFrame ==
    CHOOSE f \in FrameIds \cup { NoFrame } :
        /\ f # NoFrame => frames[f].state # "free"
        /\ \A g \in FrameIds : frames[g].state # "free" => g <= f

C21_SingleProducer ==
    [][ nPushed' > nPushed =>
          /\ planOp'.op = "genAnswer"
          /\ planOp'.id = LatestFrame
          /\ \A g \in FrameIds \ { planOp'.id } : frames[g].gen # "llm" ]_vars

\* C22: at most one plan step is being performed at any instant, also when
\* executePlan calls overlap.
StepsInFlight == { f \in FrameIds : frames[f].exec = "acting" }

C22_OneStepInFlight == Cardinality(StepsInFlight) <= 1

\* C23: a retry handler attempts the operation at most retryLimit times;
\* it returns the value of the first attempt that fulfils and attempts
\* nothing after it; when it throws, it throws the error of its last
\* attempt, which is attempt retryLimit unless the hook threw the error.
C23_RetryBounded ==
    \A i \in RetryIds :
        LET r == rt[i] IN
        /\ r.attempts <= retryLimit
        /\ r.pc # "idle" => \A j \in 1..(r.attempts - 1) : outcomes[j] # "ok"
        /\ r.pc = "returned" =>
               /\ outcomes[r.attempts] = "ok"
               /\ r.result = Outcome("ok", r.attempts)
        /\ r.pc = "threw" =>
               /\ outcomes[r.attempts] # "ok"
               /\ r.result = Outcome(outcomes[r.attempts], r.attempts)
               /\ \/ r.attempts = retryLimit
                  \/ HasHook(i) /\ outcomes[r.attempts] = "invalid"

\* Every attempt failed with a transient error: the last one is rethrown;
\* and a run that succeeded at its second attempt.
C23_Witness ==
    /\ rt["gateway"].pc = "threw"
    /\ rt["gateway"].attempts = retryLimit
    /\ rt["gateway"].result = Outcome("transient", retryLimit)
    /\ \A j \in 1..retryLimit : outcomes[j] = "transient"

RetryDone(i) == rt[i].pc \in { "returned", "threw" }

C25_HookIsObservational ==
    (RetryDone("handler") /\ RetryDone("gateway")) =>
        /\ rt["handler"].attempts = rt["gateway"].attempts
        /\ rt["handler"].pc = rt["gateway"].pc
        /\ rt["handler"].result = rt["gateway"].result

\* C26: the step generator asks the language model for another batch only
\* after a full batch (chunkSize steps) when the goal is not achieved, that
\* is when isGoalAchieved pushed the goal's own steps; after an empty batch,
\* a shorter batch or an achieved goal it has ended.
C26_GeneratorStops ==
    [][ planOp'.op = "genAnswer" =>
          LET f == planOp'.id
              pushed == nPushed' - nPushed
          IN  /\ frames[f].gen = "llm"
              /\ frames'[f].gen = "llm" =>
                     /\ frames'[f].chunks = frames[f].chunks + 1
                     /\ GoalSteps(goal) # << >>
                     /\ pushed = chunkSize + Len(GoalSteps(goal))
              /\ frames'[f].chunks = frames[f].chunks => frames'[f].gen # "llm"
              /\ pushed \in 1..(chunkSize - 1) => frames'[f].gen = "done"
              /\ GoalSteps(goal) = << >> => frames'[f].gen # "llm" ]_vars

\* A full batch for a goal that is achieved: the generator has ended
C26_Witness ==
    /\ planOp = Op("genAnswer", 1)
    /\ goal = << "attack", "zombie" >>
    /\ nPushed = chunkSize
    /\ frames[1].chunks = 1
    /\ frames[1].gen = "done"
    /\ frames[1].state = "running"

\* C27: when a language-model request of a producer fails, the executePlan
\* invocation it belongs to has thrown and its plan is failed, the client's
\* call has thrown, and once the client's call has thrown no further step
\* is handed to performAction.
GenerationFailed == \E f \in FrameIds : frames[f].errs.gen = "llm"

C27_GenerationFailureFailsPlan ==
    /\ [](\A f \in FrameIds :
             frames[f].errs.gen = "llm" =>
                 /\ frames[f].state = "threw"
                 /\ plans[frames[f].plan].status = "failed"
                 /\ client = "threw"
                 /\ plans[clientPlan].status = "failed")
    /\ [][ (client = "threw" /\ GenerationFailed) => nSubmitted' = nSubmitted ]_vars

\* The producer failed while the consumer was inside performAction
C27_Witness ==
    /\ frames[1].errs.gen = "llm"
    /\ frames[1].err = "llm"
    /\ frames[1].exec = "acting"
    /\ client = "threw"
    /\ nSubmitted < nPushed

\* C28: on a planning agent that is not initialized, createPlan, executePlan
\* and adjustPlan do not get past their first statement: the step is the
\* 'not initialized' throw, and it leaves the plans, currentPlan, the
\* context, the executePlan invocations and what the client holds as they
\* were.
PublicCalls == { "createPlan", "executePlan", "adjustPlan" }
NotInitializedErrors ==
    { "createPlan: not initialized", "executePlan: not initialized",
      "adjustPlan: not initialized" }

C28_NotInitializedThrows ==
    [][ /\ ~initialized => planOp'.op \notin PublicCalls
        /\ planOp'.op \in NotInitializedErrors =>
               /\ ~initialized
               /\ UNCHANGED << plans, currentPlan, context, frames, client,
                               clientPlan, clientAdjust >> ]_vars

\* executePlan is refused on an agent destroyed while createPlan waited for
\* the language model: the plan it returned and the context it set are left
\* alone.
C28_Witness ==
    /\ planOp.op = "executePlan: not initialized"
    /\ ~initialized
    /\ context.exists
    /\ plans[clientPlan].status = "pending"

\* C29: when the consumer of an executePlan invocation catches a step
\* failure and retries, the queue is emptied in that step, and from then on
\* the producer of that invocation appends nothing to pendingSteps; so
\* nothing but what the retry's own producer appends is executed afterwards.
Halted(f) ==
    \/ frames[f].exec \in { "adjusting", "awaitChild" }
    \/ \E g \in FrameIds : frames[g].state # "free" /\ frames[g].parent = f

C29_HaltedProducerAppendsNothing ==
    [][ /\ (planOp'.op = "stepFails" /\ frames'[planOp'.id].exec = "adjusting")
               => context'.pendingSteps = << >>
        /\ nPushed' > nPushed => ~Halted(planOp'.id) ]_vars

\* C30: with every request and every action returning, an executePlan call
\* of the client settles; and a consumer leaves its loop through the loop
\* condition only when the context it reads has isGenerating off and no
\* pending step.
ConsumerInLoop(f) == frames[f].exec \in { "sleep", "acting" }

C30_ExecutePlanSettles ==
    /\ (client = "executing") ~> (client \in { "returned", "threw" })
    /\ [][ \A f \in FrameIds :
              (ConsumerInLoop(f) /\ frames'[f].exec = "done") =>
                  /\ context.exists
                  /\ ~context.isGenerating
                  /\ context.pendingSteps = << >> ]_vars

\* A call that settled after a retry whose steps ran to the end
C30_Witness ==
    /\ client = "returned"
    /\ nFailed > 0
    /\ frames[2].state = "returned"
    /\ frames[2].exec = "done"
    /\ frames[2].nsub > 0

\* C31: the timer of an action whose body returned or threw before the
\* deadline does not fire: a timer fires only while its own body is
\* running, and once the body's end has been handled the timer is no
\* longer armed, whatever runs later.
BodyFinished(a) == body[a] \in { "returned", "threw" }

C31_FinishedBodyCancelsTimer ==
    /\ [][ lastOp'.op = "timerFire" => body[lastOp'.id] = "running" ]_vars
    /\ [](\A a \in CallIds :
             (BodyFinished(a) /\ timer[a] = "armed") =>
                 \E c \in Range(ready) :
                     cur[c] = a /\ pc[c] \in { "settledOk", "settledErr" })

\* An action finished in time and had its timer cleared; a later action is
\* running.
C31_Witness ==
    \E a, b \in CallIds :
        /\ a < b
        /\ BodyFinished(a)
        /\ timer[a] = "cleared"
        /\ body[b] = "running"
        /\ timer[b] = "armed"

\* C32: when processQueue gets the no-op result {success:false,
\* message:null} of a resume request, the actions queued behind that
\* request stay: each of them is still in the queue, or is the one the loop
\* starts next.
C32_NoopResumeKeepsQueue ==
    [][ \A c \in CallIds :
          (lastOp' = Op("pqAfter", c) /\ pend[c] = ResultNoop) =>
              \A a \in Range(Shift(actionQueue)) :
                  a \in Range(actionQueue') \/ cur'[c] = a ]_vars

\* C33: a call is rejected only when its own request is a resume with a
\* function and no label, and the entry of a rejected call is not in the
\* queue; so a later runAction finds its own action at the head.
MissingLabel(c) == act[c].resume /\ act[c].hasFn /\ ~act[c].hasLabel

C33_RejectedResumeLeavesEngineUsable ==
    \A c \in CallIds :
        pc[c] = "rejected" => MissingLabel(c) /\ c \notin Range(actionQueue)

\* C34: while a consumer waits for performAction and a full batch is
\* waiting in pendingSteps, the queue does not grow: the producer pauses
\* until the consumer has taken steps again.
ConsumerStalled == \E f \in FrameIds : frames[f].exec = "acting"

C34_ProducerPausesWhenStalled ==
    [][ (ConsumerStalled /\ Len(context.pendingSteps) >= chunkSize) =>
            Len(context'.pendingSteps) <= Len(context.pendingSteps) ]_vars

\* C35: an executePlan call on a plan that requires action returns with the
\* plan completed only after it has handed every step of the plan to
\* performAction, first to last; also when createPlan took the plan from
\* the cache.
C35_CompletedPlanRanEveryStep ==
    [][ \A f \in FrameIds :
          LET p == frames'[f].plan IN
          ( /\ frames[f].state # "returned"
            /\ frames'[f].state = "returned"
            /\ plans'[p].requiresAction
            /\ plans'[p].status = "completed" ) =>
              frames'[f].nsub = Len(plans'[p].steps) ]_vars

\* C36: after an interrupt is delivered while executePlan is running, no
\* further step is submitted to the action agent and the plan's status
\* stays 'failed' up to the end of the call.  handleInterrupt is the only
\* statement that fails the plan of an invocation that has not settled.
InterruptedRun(f) ==
    /\ frames[f].state = "running"
    /\ plans[frames[f].plan].status = "failed"

C36_InterruptedPlanFails ==
    [][ \A f \in FrameIds :
          InterruptedRun(f) =>
              /\ nSubmitted' = nSubmitted
              /\ plans'[frames[f].plan].status = "failed" ]_vars

\* C37: while an executePlan call is running, this.context is the context
\* created for the goal of the plan it executes: a createPlan call for
\* another goal that overlaps it neither replaces nor clears it.
C37_RunningPlanKeepsItsContext ==
    \A f \in FrameIds :
        (frames[f].state = "running" /\ frames[f].plan = clientPlan) =>
            context.exists /\ context.goal = goal

\* C38: under PlanHandler.adjustPlan a goal's retryCount never exceeds
\* maxRetries; while a goal's context is at maxRetries, an adjustPlan call
\* for it throws 'Maximum retry attempts reached': retryCount is not
\* incremented and the plan generator is not called.
AtCeiling(g) ==
    handlerContexts[g].exists /\ handlerContexts[g].retryCount >= contextMaxRetries

C38_HandlerRetryBounded ==
    /\ [](\A g \in GoalInputs : handlerContexts[g].retryCount <= contextMaxRetries)
    /\ [][ \A g \in GoalInputs :
             AtCeiling(g) =>
                 /\ handlerContexts'[g].retryCount <= handlerContexts[g].retryCount
                 /\ handlerCalls'[g].live <= handlerCalls[g].live
                 /\ planOp'.op = "handlerAdjust" =>
                        \E h \in GoalInputs \ { g } :
                            handlerCalls'[h].live = handlerCalls[h].live + 1 ]_vars

\* An adjustPlan call has thrown for a goal at maxRetries
C38_Witness ==
    /\ planOp.op = "handlerAdjustThrows"
    /\ \E g \in GoalInputs : AtCeiling(g)

\* C39: a retry does not redo completed work: when adjustPlan has returned
\* and the adjusted plan is executed, no step of the failed plan that has
\* already succeeded (the steps before context.currentStep) is submitted
\* to the action agent again.
SucceededSteps(f) ==
    LET adj == frames[f].adj
        old == plans[adj.plan].steps
    IN  Range(SubSeq(old, 1, Min(adj.currentStep, Len(old))))

C40_ListenersRegisteredOnce == listeners <= 1
====
